---------------------------- MODULE Spec2Model ----------------------------
(***************************************************************************)
(* A model of the human-like typer: the keyboard adjacency map             *)
(* (src/core/keyboard_map.py), the typo model (src/core/typo_model.py),    *)
(* the burst state of the timing model (src/personal/timing_model.py) and  *)
(* the typing engine with its background threads                           *)
(* (src/personal/typer_engine.py).                                         *)
(*                                                                         *)
(* Characters are one-character strings; Python's None is NoneChar.        *)
(* Random draws (random.random, random.choice, random.randint) are inputs  *)
(* chosen with \E.  Inside the engine the delay of a timing sample is      *)
(* drawn from a few of the values calculate_delay can return; the duration *)
(* of a Pause action is not part of the state, the action keeps its label  *)
(* only.                                                                   *)
(*                                                                         *)
(* The calling thread and the background threads share the engine without  *)
(* a lock.  A step of a control call or of _run ends at each               *)
(* threading.Event operation, each callback and each random draw made      *)
(* outside the main loop, between the sample of a character and the cursor *)
(* advance, and after each statement of the completion, so that the other  *)
(* threads run in between.                                                 *)
(*                                                                         *)
(* A behaviour makes at most call_limit control calls, of which at most    *)
(* MaxStarts are start() calls.  Spec is the engine under any such         *)
(* sequence of start, pause, resume, stop, toggle_pause and update_config  *)
(* calls; SpecLong has one more call, no update_config and one text.       *)
(* SpecFair and SpecFairLong are the engine when stop() is never called,   *)
(* with fair scheduling, SpecRun one start() call on a new engine.         *)
(* SpecTypo, SpecText, SpecTiming and SpecKeys are direct calls of         *)
(* TypoModel.process_char, TypoModel.process_text, the TimingModel methods *)
(* and the keyboard map functions; fcall holds the call and its result.    *)
(***************************************************************************)
EXTENDS Integers, Sequences, FiniteSets, TLC

\* ------------------------------------------------------------------ bounds
\* Longest text passed to start().
MaxLen == 2
\* Number of start() calls in one behaviour.
MaxStarts == 2
\* Every accepted start() creates a thread: a behaviour has at most MaxStarts
\* threads.
MaxThreads == MaxStarts
\* Number of control calls (start, pause, resume, stop, toggle_pause,
\* update_config) in one behaviour.
MaxCalls == 3
\* Countdown length of the configurations that use a countdown.
MaxCountdown == 2

NoneChar == "<None>"

\* --------------------------------------------------- core/keyboard_map.py
\* The grave-accent key is written "<grave>" (the parser pairs a grave accent with a
\* later apostrophe); every other character is itself.
ADJACENT_KEYS ==
  [c \in {"<grave>", "1", "2", "3", "4", "5", "6", "7", "8", "9", "0", "-", "=", "q", "w", "e", "r", "t", "y", "u", "i", "o", "p", "[", "]", "\\", "a", "s", "d", "f", "g", "h", "j", "k", "l", ";", "'", "z", "x", "c", "v", "b", "n", "m", ",", ".", "/"} |->
     CASE c = "<grave>" -> <<"1">>
       [] c = "1" -> <<"<grave>", "2", "q">>
       [] c = "2" -> <<"1", "3", "q", "w">>
       [] c = "3" -> <<"2", "4", "w", "e">>
       [] c = "4" -> <<"3", "5", "e", "r">>
       [] c = "5" -> <<"4", "6", "r", "t">>
       [] c = "6" -> <<"5", "7", "t", "y">>
       [] c = "7" -> <<"6", "8", "y", "u">>
       [] c = "8" -> <<"7", "9", "u", "i">>
       [] c = "9" -> <<"8", "0", "i", "o">>
       [] c = "0" -> <<"9", "-", "o", "p">>
       [] c = "-" -> <<"0", "=", "p", "[">>
       [] c = "=" -> <<"-", "[", "]">>
       [] c = "q" -> <<"1", "2", "w", "a">>
       [] c = "w" -> <<"2", "3", "q", "e", "a", "s">>
       [] c = "e" -> <<"3", "4", "w", "r", "s", "d">>
       [] c = "r" -> <<"4", "5", "e", "t", "d", "f">>
       [] c = "t" -> <<"5", "6", "r", "y", "f", "g">>
       [] c = "y" -> <<"6", "7", "t", "u", "g", "h">>
       [] c = "u" -> <<"7", "8", "y", "i", "h", "j">>
       [] c = "i" -> <<"8", "9", "u", "o", "j", "k">>
       [] c = "o" -> <<"9", "0", "i", "p", "k", "l">>
       [] c = "p" -> <<"0", "-", "o", "[", "l", ";">>
       [] c = "[" -> <<"-", "=", "p", "]", ";", "'">>
       [] c = "]" -> <<"=", "[", "\\", "'">>
       [] c = "\\" -> <<"=", "]">>
       [] c = "a" -> <<"q", "w", "s", "z">>
       [] c = "s" -> <<"q", "w", "e", "a", "d", "z", "x">>
       [] c = "d" -> <<"w", "e", "r", "s", "f", "x", "c">>
       [] c = "f" -> <<"e", "r", "t", "d", "g", "c", "v">>
       [] c = "g" -> <<"r", "t", "y", "f", "h", "v", "b">>
       [] c = "h" -> <<"t", "y", "u", "g", "j", "b", "n">>
       [] c = "j" -> <<"y", "u", "i", "h", "k", "n", "m">>
       [] c = "k" -> <<"u", "i", "o", "j", "l", "m", ",">>
       [] c = "l" -> <<"i", "o", "p", "k", ";", ",", ".">>
       [] c = ";" -> <<"o", "p", "[", "l", "'", ".">>
       [] c = "'" -> <<"p", "[", "]", ";">>
       [] c = "z" -> <<"a", "s", "x">>
       [] c = "x" -> <<"a", "s", "d", "z", "c">>
       [] c = "c" -> <<"s", "d", "f", "x", "v">>
       [] c = "v" -> <<"d", "f", "g", "c", "b">>
       [] c = "b" -> <<"f", "g", "h", "v", "n">>
       [] c = "n" -> <<"g", "h", "j", "b", "m">>
       [] c = "m" -> <<"h", "j", "k", "n", ",">>
       [] c = "," -> <<"j", "k", "l", "m", ".">>
       [] c = "." -> <<"k", "l", ";", ",", "/">>
       [] c = "/" -> <<"l", ";", ".">>]

SHIFT_SYMBOLS ==
  [c \in {"~", "!", "@", "#", "$", "%", "^", "&", "*", "(", ")", "_", "+", "{", "}", "|", ":", "\"", "<", ">", "?"} |->
     CASE c = "~" -> "<grave>"
       [] c = "!" -> "1"
       [] c = "@" -> "2"
       [] c = "#" -> "3"
       [] c = "$" -> "4"
       [] c = "%" -> "5"
       [] c = "^" -> "6"
       [] c = "&" -> "7"
       [] c = "*" -> "8"
       [] c = "(" -> "9"
       [] c = ")" -> "0"
       [] c = "_" -> "-"
       [] c = "+" -> "="
       [] c = "{" -> "["
       [] c = "}" -> "]"
       [] c = "|" -> "\\"
       [] c = ":" -> ";"
       [] c = "\"" -> "'"
       [] c = "<" -> ","
       [] c = ">" -> "."
       [] c = "?" -> "/"]

LOWER_OF ==
  [c \in {"A", "B", "C", "D", "E", "F", "G", "H", "I", "J", "K", "L", "M", "N", "O", "P", "Q", "R", "S", "T", "U", "V", "W", "X", "Y", "Z"} |->
     CASE c = "A" -> "a"
       [] c = "B" -> "b"
       [] c = "C" -> "c"
       [] c = "D" -> "d"
       [] c = "E" -> "e"
       [] c = "F" -> "f"
       [] c = "G" -> "g"
       [] c = "H" -> "h"
       [] c = "I" -> "i"
       [] c = "J" -> "j"
       [] c = "K" -> "k"
       [] c = "L" -> "l"
       [] c = "M" -> "m"
       [] c = "N" -> "n"
       [] c = "O" -> "o"
       [] c = "P" -> "p"
       [] c = "Q" -> "q"
       [] c = "R" -> "r"
       [] c = "S" -> "s"
       [] c = "T" -> "t"
       [] c = "U" -> "u"
       [] c = "V" -> "v"
       [] c = "W" -> "w"
       [] c = "X" -> "x"
       [] c = "Y" -> "y"
       [] c = "Z" -> "z"]

\* SHIFT_MAP: the symbol entries plus A-Z -> a-z (keyboard_map.py 78-107).
SHIFT_CHARS == DOMAIN SHIFT_SYMBOLS \cup DOMAIN LOWER_OF

\* get_base_key that also maps a lower-case letter, to its capital.
get_base_key_SwapsCase(char) ==
  IF char \in DOMAIN SHIFT_SYMBOLS THEN SHIFT_SYMBOLS[char]
  ELSE IF char \in DOMAIN LOWER_OF THEN LOWER_OF[char]
  ELSE IF \E u \in DOMAIN LOWER_OF : LOWER_OF[u] = char
  THEN CHOOSE u \in DOMAIN LOWER_OF : LOWER_OF[u] = char
  ELSE char

get_base_key(char) ==
  IF char \in DOMAIN SHIFT_SYMBOLS THEN SHIFT_SYMBOLS[char]
  ELSE IF char \in DOMAIN LOWER_OF THEN LOWER_OF[char]
  ELSE char

\* UNSHIFT_MAP: the inverse of the symbol entries (built before A-Z is added).
UNSHIFT_DOMAIN == {SHIFT_SYMBOLS[s] : s \in DOMAIN SHIFT_SYMBOLS}

UNSHIFT_MAP(n) == CHOOSE s \in DOMAIN SHIFT_SYMBOLS : SHIFT_SYMBOLS[s] = n

\* str.upper() on one character.
Upper(n) ==
  IF \E u \in DOMAIN LOWER_OF : LOWER_OF[u] = n
  THEN CHOOSE u \in DOMAIN LOWER_OF : LOWER_OF[u] = n
  ELSE n

\* get_adjacent_keys that upper-cases every neighbor of a shifted character
\* and never looks it up in UNSHIFT_MAP.
get_adjacent_keys_UpperOnly(char) ==
  LET is_shifted == char \in SHIFT_CHARS
      base == get_base_key(char)
      neighbors == IF base \in DOMAIN ADJACENT_KEYS THEN ADJACENT_KEYS[base] ELSE <<>>
  IN  IF ~is_shifted THEN neighbors
      ELSE [j \in 1..Len(neighbors) |-> Upper(neighbors[j])]

get_adjacent_keys(char) ==
  LET is_shifted == char \in SHIFT_CHARS
      base == get_base_key(char)
      neighbors == IF base \in DOMAIN ADJACENT_KEYS THEN ADJACENT_KEYS[base] ELSE <<>>
  IN  IF ~is_shifted THEN neighbors
      ELSE [j \in 1..Len(neighbors) |->
              IF neighbors[j] \in UNSHIFT_DOMAIN THEN UNSHIFT_MAP(neighbors[j])
              ELSE Upper(neighbors[j])]

is_shift_required(char) == char \in SHIFT_CHARS

\* ----------------------------------------------------- core/typo_model.py
\* Action(action_type, char, count, label).  Labels stand for the Korean log
\* labels: "normal" = 정상, "typo" = 오타(원래:c), "fix" = 수정,
\* "transposed_first" = 전치(원래:ab), "transposed" = 전치,
\* "double" = 이중입력(실수), "notice" = 인지 딜레이, "retype" = retype 준비.
TypeAction(char, label) ==
  [action_type |-> "TYPE", char |-> char, count |-> 1, label |-> label]

BackspaceAction(count) ==
  [action_type |-> "BACKSPACE", char |-> "", count |-> count, label |-> ""]

PauseAction(label) ==
  [action_type |-> "PAUSE", char |-> "", count |-> 1, label |-> label]

ZeroStats ==
  [total_chars |-> 0, typos |-> 0, adjacent |-> 0, transposition |-> 0,
   double_strike |-> 0, revised |-> 0, unrevised |-> 0]

\* TypoModel.reset_stats
reset_stats(stats) == [key \in DOMAIN stats |-> 0]

\* enabled_types that lists "adjacent" whatever the toggle says.
enabled_types_AdjacentAlways(cfg) ==
  <<"adjacent">>
  \o (IF cfg.transposition_enabled THEN <<"transposition">> ELSE <<>>)
  \o (IF cfg.double_strike_enabled THEN <<"double_strike">> ELSE <<>>)

\* TypoConfig.enabled_types
enabled_types(cfg) ==
  (IF cfg.adjacent_key_enabled THEN <<"adjacent">> ELSE <<>>)
  \o (IF cfg.transposition_enabled THEN <<"transposition">> ELSE <<>>)
  \o (IF cfg.double_strike_enabled THEN <<"double_strike">> ELSE <<>>)

\* A result of process_char: the actions, skip_next and the updated counters.
TypoResult(actions, skip_next, stats) ==
  [actions |-> actions, skip_next |-> skip_next, stats |-> stats]

NormalResult(char, stats) ==
  TypoResult(<<TypeAction(char, "normal")>>, FALSE, stats)

\* random.random() < cfg.actual_revision_prob, the draw u2 in percent.
Revised(cfg, u2) == u2 < cfg.typo_revision_prob

\* _adjacent_typo counting the typo before it looks for adjacent keys.
adjacent_typo_CountsFallback(char, cfg, stats, ai, u2) ==
  LET neighbors == get_adjacent_keys(char)
      s1 == [stats EXCEPT !.typos = @ + 1, !.adjacent = @ + 1]
  IN  IF neighbors = <<>> THEN NormalResult(char, s1)
      ELSE
        LET wrong_char == neighbors[ai]
        IN  IF Revised(cfg, u2)
            THEN TypoResult(
                   <<TypeAction(wrong_char, "typo"), PauseAction("notice"),
                     BackspaceAction(1), PauseAction("retype"),
                     TypeAction(char, "fix")>>,
                   FALSE, [s1 EXCEPT !.revised = @ + 1])
            ELSE TypoResult(<<TypeAction(wrong_char, "typo")>>,
                   FALSE, [s1 EXCEPT !.unrevised = @ + 1])

adjacent_typo(char, cfg, stats, ai, u2) ==
  LET neighbors == get_adjacent_keys(char)
  IN  IF neighbors = <<>> THEN NormalResult(char, stats)
      ELSE
        LET wrong_char == neighbors[ai]
            s1 == [stats EXCEPT !.typos = @ + 1, !.adjacent = @ + 1]
        IN  IF Revised(cfg, u2)
            THEN TypoResult(
                   <<TypeAction(wrong_char, "typo"), PauseAction("notice"),
                     BackspaceAction(1), PauseAction("retype"),
                     TypeAction(char, "fix")>>,
                   FALSE, [s1 EXCEPT !.revised = @ + 1])
            ELSE TypoResult(<<TypeAction(wrong_char, "typo")>>,
                   FALSE, [s1 EXCEPT !.unrevised = @ + 1])

\* _transposition_typo returning skip_next = False when the typo is left
\* unrevised.
transposition_typo_UnrevisedNoSkip(char, next_char, cfg, stats, u2) ==
  IF next_char = NoneChar THEN NormalResult(char, stats)
  ELSE
    LET s1 == [stats EXCEPT !.typos = @ + 1, !.transposition = @ + 1]
        swapped == <<TypeAction(next_char, "transposed_first"),
                     TypeAction(char, "transposed")>>
    IN  IF Revised(cfg, u2)
        THEN TypoResult(
               swapped \o <<PauseAction("notice"), BackspaceAction(2),
                            PauseAction("retype"), TypeAction(char, "fix"),
                            TypeAction(next_char, "fix")>>,
               TRUE, [s1 EXCEPT !.revised = @ + 1])
        ELSE TypoResult(swapped, FALSE, [s1 EXCEPT !.unrevised = @ + 1])

transposition_typo(char, next_char, cfg, stats, u2) ==
  IF next_char = NoneChar THEN NormalResult(char, stats)
  ELSE
    LET s1 == [stats EXCEPT !.typos = @ + 1, !.transposition = @ + 1]
        swapped == <<TypeAction(next_char, "transposed_first"),
                     TypeAction(char, "transposed")>>
    IN  IF Revised(cfg, u2)
        THEN TypoResult(
               swapped \o <<PauseAction("notice"), BackspaceAction(2),
                            PauseAction("retype"), TypeAction(char, "fix"),
                            TypeAction(next_char, "fix")>>,
               TRUE, [s1 EXCEPT !.revised = @ + 1])
        ELSE TypoResult(swapped, TRUE, [s1 EXCEPT !.unrevised = @ + 1])

\* _double_strike_typo whose revision deletes both copies (Backspace x 2).
double_strike_typo_DeletesBoth(char, cfg, stats, u2) ==
  LET s1 == [stats EXCEPT !.typos = @ + 1, !.double_strike = @ + 1]
      twice == <<TypeAction(char, "normal"), TypeAction(char, "double")>>
  IN  IF Revised(cfg, u2)
      THEN TypoResult(
             twice \o <<PauseAction("notice"), BackspaceAction(2),
                        PauseAction("retype")>>,
             FALSE, [s1 EXCEPT !.revised = @ + 1])
      ELSE TypoResult(twice, FALSE, [s1 EXCEPT !.unrevised = @ + 1])

\* _double_strike_typo that counts the typo but not its class.
double_strike_typo_NoClassCount(char, cfg, stats, u2) ==
  LET s1 == [stats EXCEPT !.typos = @ + 1]
      twice == <<TypeAction(char, "normal"), TypeAction(char, "double")>>
  IN  IF Revised(cfg, u2)
      THEN TypoResult(
             twice \o <<PauseAction("notice"), BackspaceAction(1),
                        PauseAction("retype")>>,
             FALSE, [s1 EXCEPT !.revised = @ + 1])
      ELSE TypoResult(twice, FALSE, [s1 EXCEPT !.unrevised = @ + 1])

double_strike_typo(char, cfg, stats, u2) ==
  LET s1 == [stats EXCEPT !.typos = @ + 1, !.double_strike = @ + 1]
      twice == <<TypeAction(char, "normal"), TypeAction(char, "double")>>
  IN  IF Revised(cfg, u2)
      THEN TypoResult(
             twice \o <<PauseAction("notice"), BackspaceAction(1),
                        PauseAction("retype")>>,
             FALSE, [s1 EXCEPT !.revised = @ + 1])
      ELSE TypoResult(twice, FALSE, [s1 EXCEPT !.unrevised = @ + 1])

\* The random draws of one process_char call: u1 = random.random() in basis
\* points (0..9999), ci = the index random.choice(enabled) picks, ai = the
\* index random.choice(neighbors) picks, u2 = random.random() in percent.
U1Draws == {0, 5000, 9999}

U2Draws == {0, 99}

AtLeastOne(n) == IF n < 1 THEN 1 ELSE n

\* random.choice(neighbors) is drawn only inside _adjacent_typo.
Draws(char, cfg) ==
  [u1 : U1Draws,
   ci : 1..AtLeastOne(Len(enabled_types(cfg))),
   ai : IF cfg.adjacent_key_enabled
        THEN 1..AtLeastOne(Len(get_adjacent_keys(char))) ELSE {1},
   u2 : IF enabled_types(cfg) = <<>> THEN {0} ELSE U2Draws]

\* process_char comparing the draw with > instead of >= (line 145).
process_char_StrictDraw(char, prev_char, next_char, cfg, stats, d) ==
  LET s0 == [stats EXCEPT !.total_chars = @ + 1]
      enabled == enabled_types(cfg)
  IN  IF enabled = <<>> THEN NormalResult(char, s0)
      ELSE IF d.u1 > cfg.typo_prob THEN NormalResult(char, s0)
      ELSE
        LET typo_type == enabled[d.ci]
        IN  CASE typo_type = "adjacent" -> adjacent_typo(char, cfg, s0, d.ai, d.u2)
              [] typo_type = "transposition" ->
                   transposition_typo(char, next_char, cfg, s0, d.u2)
              [] typo_type = "double_strike" -> double_strike_typo(char, cfg, s0, d.u2)
              [] OTHER -> NormalResult(char, s0)

\* TypoModel.process_char; prev_char is not read by the code.
process_char(char, prev_char, next_char, cfg, stats, d) ==
  LET s0 == [stats EXCEPT !.total_chars = @ + 1]
      enabled == enabled_types(cfg)
  IN  IF enabled = <<>> THEN NormalResult(char, s0)
      ELSE IF d.u1 >= cfg.typo_prob THEN NormalResult(char, s0)
      ELSE
        LET typo_type == enabled[d.ci]
        IN  CASE typo_type = "adjacent" -> adjacent_typo(char, cfg, s0, d.ai, d.u2)
              [] typo_type = "transposition" ->
                   transposition_typo(char, next_char, cfg, s0, d.u2)
              [] typo_type = "double_strike" -> double_strike_typo(char, cfg, s0, d.u2)
              [] OTHER -> NormalResult(char, s0)

\* ------------------------------------------------ personal/timing_model.py
\* The burst state after TimingModel._reset_burst, size drawn by randint.
reset_burst(cfg, size) == [counter |-> 0, size |-> size]

BurstSizes(cfg) == cfg.burst_length_min .. cfg.burst_length_max

\* _check_burst_boundary drawing a new size at a boundary without setting the
\* counter back to 0.
burst_after_delay_NoReset(cfg, burst, size) ==
  IF ~cfg.burst_enabled THEN burst
  ELSE IF burst.counter + 1 >= burst.size
  THEN [counter |-> burst.counter + 1, size |-> size]
  ELSE [burst EXCEPT !.counter = @ + 1]

\* The burst state after one calculate_delay call: _check_burst_boundary runs
\* only when burst is enabled; at a boundary a new size is drawn.
burst_after_delay(cfg, burst, size) ==
  IF ~cfg.burst_enabled THEN burst
  ELSE IF burst.counter + 1 >= burst.size THEN [counter |-> 0, size |-> size]
  ELSE [burst EXCEPT !.counter = @ + 1]

\* The delays (ms) calculate_delay can return, as this model draws them: the
\* result is max(15.0, delay) (line 175).  With delay_variance_ms = 0 and the
\* additive pauses at 0 ms the gaussian terms vanish and the delay is the base
\* delay; otherwise it is any value from the clamp upwards, of which the
\* clamp, the base delay and the base delay plus the variance are drawn.
MinDelay == 15

Max2(a, b) == IF a >= b THEN a ELSE b

DelayDraws(cfg) ==
  IF cfg.delay_variance_ms = 0
  THEN {Max2(MinDelay, cfg.base_delay_ms)}
  ELSE {MinDelay, Max2(MinDelay, cfg.base_delay_ms),
        Max2(MinDelay, cfg.base_delay_ms + cfg.delay_variance_ms)}

RECURSIVE SumTo(_, _)
\* s[1] + ... + s[n]
SumTo(s, n) == IF n = 0 THEN 0 ELSE SumTo(s, n - 1) + s[n]

\* One timing sample (char, delay, breakdown): the breakdown is determined by
\* the arguments calculate_delay was called with and the random draws.
Sample(char, prev_char, index, delay) ==
  [char |-> char, prev_char |-> prev_char, index |-> index, delay |-> delay]

\* ------------------------------------------------ personal/typer_engine.py
VARIABLES
  config,        \* TyperEngine.config; update_config replaces it
  models_config, \* the config whose timing and typo parts _timing and _typo hold
  state,         \* TyperEngine._state
  pause_event,   \* _pause_event.is_set()
  stop_event,    \* _stop_event.is_set()
  timing_data,   \* timing_data
  log_lines,     \* len(log_lines); the text of a line is in its log event
  typo_stats,    \* _typo.stats
  burst,         \* _timing._burst_counter, _timing._burst_size
  threads,       \* the background threads running _run, with their locals
  cpc,           \* where the calling thread is inside a control call
  carg,          \* the text argument of the start() call in progress
  ncalls,        \* number of control calls made so far
  nstarts,       \* number of start() calls made so far
  call_limit,    \* number of control calls the behaviour may make
  pause_window,  \* history: pause() took effect, no resume() or stop() since
  last_stats,    \* the stats dict given to on_complete last
  fcall,         \* the last direct call of a model function, with its result
  out            \* the control call, callbacks and sink calls of the last step

vars == <<config, models_config, state, pause_event, stop_event, timing_data, log_lines,
          typo_stats, burst, threads, cpc, carg, ncalls, nstarts,
          call_limit, pause_window, last_stats, fcall, out>>

ThreadIds == 1..MaxThreads

\* The text typed: a prefix of "abab...".
SourceChar(j) == IF j % 2 = 1 THEN "a" ELSE "b"

Text(n) == [j \in 1..n |-> SourceChar(j)]

\* The texts start() is called with: the empty text and the text of MaxLen
\* characters.
Texts == {Text(0), Text(MaxLen)}

\* EngineConfig with its TypoConfig and, of its TimingConfig, the base delay,
\* its variance and the burst fields (the other timing features are switched
\* off; the burst pause is 0 ms).  sink_faulty is not a field of EngineConfig:
\* it says whether the keyboard controller of this machine can raise.
Config(dry, cd, prob, adj, tr, dbl, brst) ==
  [dry_run |-> dry, countdown_seconds |-> cd, precise_mode |-> FALSE,
   typo_prob |-> prob,
   typo_revision_prob |-> 85, adjacent_key_enabled |-> adj,
   transposition_enabled |-> tr, double_strike_enabled |-> dbl,
   base_delay_ms |-> 70, delay_variance_ms |-> 0,
   burst_enabled |-> brst, burst_length_min |-> 2, burst_length_max |-> 2,
   burst_pause_ms |-> 0, sink_faulty |-> FALSE]

\* The configurations a behaviour may run under: a dry run with
\* transpositions (its countdown is skipped), a real run with a countdown,
\* and a real run with no countdown and burst pauses.
CountdownConfig == Config(FALSE, MaxCountdown, 30, FALSE, FALSE, FALSE, FALSE)

DryTranspositionConfig ==
  Config(TRUE, MaxCountdown, 30, FALSE, TRUE, FALSE, FALSE)

BurstConfig == Config(FALSE, 0, 30, FALSE, FALSE, FALSE, TRUE)

Configs == {DryTranspositionConfig, CountdownConfig, BurstConfig}

\* The configurations of a real run.
RealConfigs == {CountdownConfig, BurstConfig}

NoStats ==
  [total_chars |-> -1, samples |-> -1, avg_delay_ms |-> -1,
   min_delay_ms |-> -1, max_delay_ms |-> -1, typo_stats |-> ZeroStats]

\* A thread slot holding no thread.  The locals of _run: text, i, prev_char,
\* dry_run and precise (lines 236-237), remaining, the actions of text[i]
\* with the index k of the next one, skip_next, the sample (char, delay,
\* breakdown) and stats (line 341).  Besides them a thread has three history
\* fields the code does not read: stopped_at, gated, and emitted, the
\* characters its Type actions have passed to the keyboard controller.
NoThread ==
  [pc |-> "none", text |-> <<>>, i |-> 0, prev_char |-> NoneChar,
   dry_run |-> FALSE, precise |-> FALSE,
   actions |-> <<>>, k |-> 0, skip_next |-> FALSE, remaining |-> 0,
   sample |-> Sample(NoneChar, NoneChar, 0, 0), stats |-> NoStats,
   stopped_at |-> "", gated |-> FALSE, emitted |-> <<>>]

\* One callback or sink call: cb names it, t is the thread (0: the caller).
Ev(cb, t, s, n, m) == [cb |-> cb, t |-> t, s |-> s, n |-> n, m |-> m]

StateEv(t, s) == Ev("state", t, s, 0, 0)

LogEv(t, tag) == Ev("log", t, tag, 0, 0)

CallEv(op) == Ev("call", 0, op, 0, 0)

Alive(t) == threads[t].pc # "none"

\* Thread t is blocked inside self._pause_event.wait() (line 259): it found
\* the gate closed and no set() has notified it since.
Waiting(t) == threads[t].pc = "wait"

\* Event.set() notifies every thread blocked in wait(): a notified thread
\* ("woken") returns from wait() when it runs next, without testing the flag
\* again.
Wake(ths) ==
  [t \in ThreadIds |->
     IF ths[t].pc = "wait" THEN [ths[t] EXCEPT !.pc = "woken"] ELSE ths[t]]

\* The positions of a thread inside a round of the main loop (lines 258-336),
\* the handler call of line 295 included.
MainLoopPcs ==
  {"wait", "woken", "go", "sleep", "act", "inact", "fallback", "advance"}

\* Thread record th is inside the main loop (lines 257-336): inside a round,
\* or back at the test of line 257 after a round.  At "loop" with the cursor
\* still 0 the thread has executed lines 251-255 and nothing of the loop.
InMainLoop(th) == th.pc \in MainLoopPcs \/ (th.pc = "loop" /\ th.i > 0)

\* stop() was called after thread t was started.
Cancelled(t) == threads[t].stopped_at # ""

\* No model function has been called directly.
NoCall == [fn |-> "none"]

\* TyperEngine.__init__
EngineInit ==
  /\ models_config = config
  /\ state = "IDLE"
  /\ pause_event = TRUE
  /\ stop_event = FALSE
  /\ timing_data = <<>>
  /\ log_lines = 0
  /\ typo_stats = ZeroStats
  /\ burst \in {reset_burst(config, size) : size \in BurstSizes(config)}
  /\ threads = [t \in ThreadIds |-> NoThread]
  /\ cpc = "idle"
  /\ carg = <<>>
  /\ ncalls = 0
  /\ nstarts = 0
  /\ pause_window = FALSE
  /\ last_stats = NoStats
  /\ fcall = NoCall
  /\ out = <<>>

Init ==
  /\ config \in Configs
  /\ call_limit = MaxCalls
  /\ EngineInit

\* One more call than MaxCalls, with the countdown configuration only.
InitLong ==
  /\ config = CountdownConfig
  /\ call_limit = MaxCalls + 1
  /\ EngineInit

\* ---- control calls (made one after another by the calling thread) ----

\* start(text) without the state test of line 188: the call always goes on to
\* reset the run state and start a thread.
StartCall_NoStateTest(text) ==
  /\ cpc = "idle"
  /\ ncalls < call_limit
  /\ nstarts < MaxStarts
  /\ ncalls' = ncalls + 1
  /\ nstarts' = nstarts + 1
  /\ out' = <<CallEv("start")>>
  /\ cpc' = "start"
  /\ carg' = text
  /\ UNCHANGED <<fcall, config, models_config, call_limit, pause_window, state,
                 pause_event, stop_event, timing_data, log_lines, typo_stats,
                 burst, threads, last_stats>>

\* start(text), line 188: the state test.
StartCall(text) ==
  /\ cpc = "idle"
  /\ ncalls < call_limit
  /\ nstarts < MaxStarts
  /\ ncalls' = ncalls + 1
  /\ nstarts' = nstarts + 1
  /\ out' = <<CallEv("start")>>
  /\ IF state # "IDLE"
     THEN UNCHANGED <<cpc, carg>>
     ELSE /\ cpc' = "start"
          /\ carg' = text
  /\ UNCHANGED <<fcall, config, models_config, call_limit, pause_window, state,
                 pause_event, stop_event, timing_data, log_lines, typo_stats,
                 burst, threads, last_stats>>

\* The slot the next thread gets.
FreeSlot ==
  CHOOSE u \in ThreadIds : ~Alive(u) /\ \A v \in ThreadIds : ~Alive(v) => u <= v

\* start(text), line 191: self._stop_event.clear().
StartClear ==
  /\ cpc = "start"
  /\ stop_event' = FALSE
  /\ cpc' = "start_set"
  /\ out' = <<>>
  /\ UNCHANGED <<fcall, config, models_config, call_limit, pause_window, state,
                 pause_event, timing_data, log_lines, typo_stats, burst,
                 threads, carg, ncalls, nstarts, last_stats>>

\* start(text), line 192: self._pause_event.set().
StartSet ==
  /\ cpc = "start_set"
  /\ pause_event' = TRUE
  /\ threads' = Wake(threads)
  /\ cpc' = "start_reset"
  /\ out' = <<>>
  /\ UNCHANGED <<fcall, config, models_config, call_limit, pause_window, state,
                 stop_event, timing_data, log_lines, typo_stats, burst, carg,
                 ncalls, nstarts, last_stats>>

\* start(text), lines 193-196 up to the randint of _reset_burst (line 78):
\* the lists, the typo counters and the burst counter.
StartReset ==
  /\ cpc = "start_reset"
  /\ timing_data' = <<>>
  /\ log_lines' = 0
  /\ typo_stats' = reset_stats(typo_stats)
  /\ burst' = [burst EXCEPT !.counter = 0]
  /\ cpc' = "start_thread"
  /\ out' = <<>>
  /\ UNCHANGED <<fcall, config, models_config, call_limit, pause_window, state,
                 pause_event, stop_event, threads, carg, ncalls, nstarts,
                 last_stats>>

\* start(text), line 78 and lines 199-202: the burst size is drawn and the
\* thread started.
StartBody ==
  /\ cpc = "start_thread"
  /\ \E size \in BurstSizes(models_config) :
       burst' = [burst EXCEPT !.size = size]
  /\ threads' = [threads EXCEPT ![FreeSlot] =
                   [NoThread EXCEPT !.pc = "begin", !.text = carg]]
  /\ cpc' = "idle"
  /\ carg' = <<>>
  /\ out' = <<>>
  /\ UNCHANGED <<fcall, config, models_config, call_limit, pause_window, state,
                 pause_event, stop_event, timing_data, log_lines, typo_stats,
                 ncalls, nstarts, last_stats>>

\* The steps of an accepted start() after its state test.
StartStep ==
  \/ StartClear
  \/ StartSet
  \/ StartReset
  \/ StartBody

\* The configuration update_config is called with: a real run with no
\* countdown, replacing a countdown or a dry-run configuration or itself.
UpdateConfigs == {BurstConfig}

\* update_config(new_config), line 180: there is no state test; the
\* configuration is replaced.  _timing and _typo are still the models built
\* from the configuration before.
UpdateConfigCall(new_config) ==
  /\ cpc = "idle"
  /\ ncalls < call_limit
  /\ ncalls' = ncalls + 1
  /\ config' = new_config
  /\ cpc' = "update_models"
  /\ out' = <<CallEv("update_config")>>
  /\ UNCHANGED <<fcall, models_config, call_limit, pause_window, state,
                 pause_event, stop_event, timing_data, log_lines, typo_stats,
                 burst, threads, carg, nstarts, last_stats>>

\* update_config(new_config), lines 181-182: the randint of
\* TimingModel.__init__ (line 78) has returned; the timing model, with its
\* burst state, and the typo model, with its counters, are replaced by models
\* built from the new configuration.
UpdateModels ==
  /\ cpc = "update_models"
  /\ models_config' = config
  /\ \E size \in BurstSizes(config) : burst' = reset_burst(config, size)
  /\ typo_stats' = ZeroStats
  /\ cpc' = "idle"
  /\ out' = <<>>
  /\ UNCHANGED <<fcall, config, call_limit, pause_window, state, pause_event,
                 stop_event, timing_data, log_lines, threads, carg, ncalls,
                 nstarts, last_stats>>

\* pause() without the state test of line 206: the call always goes on to arm
\* the gate and publish PAUSED.
PauseCall_NoStateTest ==
  /\ cpc = "idle"
  /\ ncalls < call_limit
  /\ ncalls' = ncalls + 1
  /\ out' = <<CallEv("pause")>>
  /\ cpc' = "pause"
  /\ UNCHANGED <<fcall, config, models_config, call_limit, pause_window, state,
                 pause_event, stop_event, timing_data, log_lines, typo_stats,
                 burst, threads, carg, nstarts, last_stats>>

\* pause(), line 206: the state test.
PauseCall ==
  /\ cpc = "idle"
  /\ ncalls < call_limit
  /\ ncalls' = ncalls + 1
  /\ out' = <<CallEv("pause")>>
  /\ cpc' = IF state = "TYPING" THEN "pause" ELSE "idle"
  /\ UNCHANGED <<fcall, config, models_config, call_limit, pause_window, state,
                 pause_event, stop_event, timing_data, log_lines, typo_stats,
                 burst, threads, carg, nstarts, last_stats>>

\* pause(), line 207: self._pause_event.clear().
PauseClear ==
  /\ cpc = "pause"
  /\ pause_event' = FALSE
  /\ cpc' = "pause_state"
  /\ out' = <<>>
  /\ UNCHANGED <<fcall, config, models_config, call_limit, pause_window, state,
                 stop_event, timing_data, log_lines, typo_stats, burst,
                 threads, carg, ncalls, nstarts, last_stats>>

\* pause(), line 208: _set_state(PAUSED).  The gate is armed and the state
\* PAUSED from here on (pause_window).
PauseState ==
  /\ cpc = "pause_state"
  /\ state' = "PAUSED"
  /\ out' = <<StateEv(0, "PAUSED")>>
  /\ pause_window' = TRUE
  /\ cpc' = "pause_log"
  /\ UNCHANGED <<fcall, config, models_config, call_limit, pause_event,
                 stop_event, timing_data, log_lines, typo_stats, burst,
                 threads, carg, ncalls, nstarts, last_stats>>

\* pause(), line 209: the log line.
PauseLog ==
  /\ cpc = "pause_log"
  /\ log_lines' = log_lines + 1
  /\ out' = <<LogEv(0, "paused")>>
  /\ cpc' = "idle"
  /\ UNCHANGED <<fcall, config, models_config, call_limit, pause_window, state,
                 pause_event, stop_event, timing_data, typo_stats, burst,
                 threads, carg, ncalls, nstarts, last_stats>>

\* The steps of an accepted pause() after its state test.
PauseBody ==
  \/ PauseClear
  \/ PauseState
  \/ PauseLog

\* resume(), line 213: the state test.
ResumeCall ==
  /\ cpc = "idle"
  /\ ncalls < call_limit
  /\ ncalls' = ncalls + 1
  /\ out' = <<CallEv("resume")>>
  /\ pause_window' = FALSE
  /\ cpc' = IF state = "PAUSED" THEN "resume" ELSE "idle"
  /\ UNCHANGED <<fcall, config, models_config, call_limit, state, pause_event,
                 stop_event, timing_data, log_lines, typo_stats, burst,
                 threads, carg, nstarts, last_stats>>

\* resume(), line 214: _set_state(TYPING).
ResumeState ==
  /\ cpc = "resume"
  /\ state' = "TYPING"
  /\ out' = <<StateEv(0, "TYPING")>>
  /\ cpc' = "resume_set"
  /\ UNCHANGED <<fcall, config, models_config, call_limit, pause_window,
                 pause_event, stop_event, timing_data, log_lines, typo_stats,
                 burst, threads, carg, ncalls, nstarts, last_stats>>

\* resume(), line 215: self._pause_event.set().
ResumeSet ==
  /\ cpc = "resume_set"
  /\ pause_event' = TRUE
  /\ threads' = Wake(threads)
  /\ cpc' = "resume_log"
  /\ out' = <<>>
  /\ UNCHANGED <<fcall, config, models_config, call_limit, pause_window, state,
                 stop_event, timing_data, log_lines, typo_stats, burst, carg,
                 ncalls, nstarts, last_stats>>

\* resume(), line 216: the log line.
ResumeLog ==
  /\ cpc = "resume_log"
  /\ log_lines' = log_lines + 1
  /\ out' = <<LogEv(0, "resumed")>>
  /\ cpc' = "idle"
  /\ UNCHANGED <<fcall, config, models_config, call_limit, pause_window, state,
                 pause_event, stop_event, timing_data, typo_stats, burst,
                 threads, carg, ncalls, nstarts, last_stats>>

\* The steps of an accepted resume() after its state test.
ResumeBody ==
  \/ ResumeState
  \/ ResumeSet
  \/ ResumeLog

\* stop(), line 220: there is no state test; self._stop_event.set().  Every
\* thread alive now belongs to a run this call cancels: stopped_at records
\* whether the thread was in the main loop at the first such call, and gated
\* that the engine was PAUSED and the thread waiting on the gate then
\* (history fields, the code reads neither).
StopCall ==
  /\ cpc = "idle"
  /\ ncalls < call_limit
  /\ ncalls' = ncalls + 1
  /\ stop_event' = TRUE
  /\ out' = <<CallEv("stop")>>
  /\ pause_window' = FALSE
  /\ threads' = [t \in ThreadIds |->
                   IF Alive(t) /\ threads[t].stopped_at = ""
                   THEN [threads[t] EXCEPT !.stopped_at = IF InMainLoop(threads[t])
                                          THEN "loop" ELSE "other",
                           !.gated = state = "PAUSED" /\ Waiting(t)]
                   ELSE threads[t]]
  /\ cpc' = "stop_set"
  /\ UNCHANGED <<fcall, config, models_config, call_limit, state, pause_event,
                 timing_data, log_lines, typo_stats, burst, carg, nstarts,
                 last_stats>>

\* stop(), line 221: self._pause_event.set().
StopSet ==
  /\ cpc = "stop_set"
  /\ pause_event' = TRUE
  /\ threads' = Wake(threads)
  /\ cpc' = "stop_state"
  /\ out' = <<>>
  /\ UNCHANGED <<fcall, config, models_config, call_limit, pause_window, state,
                 stop_event, timing_data, log_lines, typo_stats, burst, carg,
                 ncalls, nstarts, last_stats>>

\* stop(), line 222: _set_state(IDLE).
StopState ==
  /\ cpc = "stop_state"
  /\ state' = "IDLE"
  /\ out' = <<StateEv(0, "IDLE")>>
  /\ cpc' = "stop_log"
  /\ UNCHANGED <<fcall, config, models_config, call_limit, pause_window,
                 pause_event, stop_event, timing_data, log_lines, typo_stats,
                 burst, threads, carg, ncalls, nstarts, last_stats>>

\* stop(), line 223: the log line.
StopLog ==
  /\ cpc = "stop_log"
  /\ log_lines' = log_lines + 1
  /\ out' = <<LogEv(0, "stopped")>>
  /\ cpc' = "idle"
  /\ UNCHANGED <<fcall, config, models_config, call_limit, pause_window, state,
                 pause_event, stop_event, timing_data, typo_stats, burst,
                 threads, carg, ncalls, nstarts, last_stats>>

\* The steps of stop() after line 220.
StopBody ==
  \/ StopSet
  \/ StopState
  \/ StopLog

\* toggle_pause(), line 226: the first state test.
ToggleCall ==
  /\ cpc = "idle"
  /\ ncalls < call_limit
  /\ ncalls' = ncalls + 1
  /\ out' = <<CallEv("toggle_pause")>>
  /\ cpc' = IF state = "TYPING" THEN "toggle_pause" ELSE "toggle_elif"
  /\ UNCHANGED <<fcall, config, models_config, call_limit, pause_window, state,
                 pause_event, stop_event, timing_data, log_lines, typo_stats,
                 burst, threads, carg, nstarts, last_stats>>

\* toggle_pause(), line 228: the second state test.
ToggleElif ==
  /\ cpc = "toggle_elif"
  /\ cpc' = IF state = "PAUSED" THEN "toggle_resume" ELSE "idle"
  /\ out' = <<>>
  /\ UNCHANGED <<fcall, config, models_config, call_limit, pause_window, state,
                 pause_event, stop_event, timing_data, log_lines, typo_stats,
                 burst, threads, carg, ncalls, nstarts, last_stats>>

\* toggle_pause(), line 227: self.pause() and its state test (line 206).
TogglePause ==
  /\ cpc = "toggle_pause"
  /\ cpc' = IF state = "TYPING" THEN "pause" ELSE "idle"
  /\ out' = <<>>
  /\ UNCHANGED <<fcall, config, models_config, call_limit, pause_window, state,
                 pause_event, stop_event, timing_data, log_lines, typo_stats,
                 burst, threads, carg, ncalls, nstarts, last_stats>>

\* toggle_pause(), line 229: self.resume() and its state test (line 213).
ToggleResume ==
  /\ cpc = "toggle_resume"
  /\ pause_window' = FALSE
  /\ cpc' = IF state = "PAUSED" THEN "resume" ELSE "idle"
  /\ out' = <<>>
  /\ UNCHANGED <<fcall, config, models_config, call_limit, state, pause_event,
                 stop_event, timing_data, log_lines, typo_stats, burst,
                 threads, carg, ncalls, nstarts, last_stats>>

\* The steps of toggle_pause() up to the state test of the call it makes.
ToggleStep ==
  \/ ToggleElif
  \/ TogglePause
  \/ ToggleResume

\* ---- the background thread: TyperEngine._run ----

SetThread(t, rec) == threads' = [threads EXCEPT ![t] = rec]

\* The thread returns from _run.
Exit(t) == threads' = [threads EXCEPT ![t] = NoThread]

\* The countdown started without regard to dry_run.
Begin_CountdownInDryRun(t) ==
  /\ threads[t].pc = "begin"
  /\ IF config.countdown_seconds > 0
     THEN /\ state' = "COUNTDOWN"
          /\ out' = <<StateEv(t, "COUNTDOWN")>>
          /\ SetThread(t, [threads[t] EXCEPT !.pc = "cd_check",
                             !.dry_run = config.dry_run,
                             !.precise = config.precise_mode])
     ELSE /\ state' = "TYPING"
          /\ out' = <<StateEv(t, "TYPING")>>
          /\ SetThread(t, [threads[t] EXCEPT !.pc = "loop",
                             !.dry_run = config.dry_run,
                             !.precise = config.precise_mode])
  /\ UNCHANGED <<fcall, config, models_config, call_limit, pause_window, pause_event, stop_event, timing_data, log_lines,
                 typo_stats, burst, cpc, carg, ncalls, nstarts, last_stats>>

\* Lines 236-241 (dry_run and precise are read once, here; the countdown is
\* entered on the countdown_seconds of now) and, with no countdown, lines
\* 251-255.
Begin(t) ==
  /\ threads[t].pc = "begin"
  /\ IF ~config.dry_run /\ config.countdown_seconds > 0
     THEN /\ state' = "COUNTDOWN"
          /\ out' = <<StateEv(t, "COUNTDOWN")>>
          /\ SetThread(t, [threads[t] EXCEPT !.pc = "cd_check",
                             !.dry_run = config.dry_run,
                             !.precise = config.precise_mode])
     ELSE /\ state' = "TYPING"
          /\ out' = <<StateEv(t, "TYPING")>>
          /\ SetThread(t, [threads[t] EXCEPT !.pc = "loop",
                             !.dry_run = config.dry_run,
                             !.precise = config.precise_mode])
  /\ UNCHANGED <<fcall, config, models_config, call_limit, pause_window, pause_event, stop_event, timing_data, log_lines,
                 typo_stats, burst, cpc, carg, ncalls, nstarts, last_stats>>

\* Lines 251-255: the countdown is over (or had no round); TYPING is
\* published and the main loop entered.
CdDone(t) ==
  /\ state' = "TYPING"
  /\ out' = <<StateEv(t, "TYPING")>>
  /\ SetThread(t, [threads[t] EXCEPT !.pc = "loop", !.remaining = 0])
  /\ UNCHANGED log_lines

\* Lines 243-246: one round of the countdown with `remaining` seconds left,
\* up to its log line.
CdRound(t, remaining) ==
  IF stop_event
  THEN /\ state' = "IDLE"
       /\ out' = <<StateEv(t, "IDLE")>>
       /\ Exit(t)
       /\ UNCHANGED log_lines
  ELSE /\ log_lines' = log_lines + 1
       /\ out' = <<LogEv(t, "countdown")>>
       /\ SetThread(t, [threads[t] EXCEPT !.pc = "cd_cb",
                          !.remaining = remaining])
       /\ UNCHANGED state

\* Line 242, after the state callback of line 241 has returned:
\* range(self.config.countdown_seconds, 0, -1) on the countdown_seconds of
\* now, and its first round; an empty range goes on to line 251.
CdCheck(t) ==
  /\ threads[t].pc = "cd_check"
  /\ IF config.countdown_seconds > 0
     THEN CdRound(t, config.countdown_seconds)
     ELSE CdDone(t)
  /\ UNCHANGED <<fcall, config, models_config, call_limit, pause_window, pause_event, stop_event, timing_data, typo_stats,
                 burst, cpc, carg, ncalls, nstarts, last_stats>>

\* Lines 247-248, the log callback has returned: on_countdown(remaining); the
\* sleep of line 249 follows.
CdCallback(t) ==
  /\ threads[t].pc = "cd_cb"
  /\ out' = <<Ev("countdown", t, "", threads[t].remaining, 0)>>
  /\ SetThread(t, [threads[t] EXCEPT !.pc = "cd_sleep"])
  /\ UNCHANGED <<fcall, config, models_config, call_limit, pause_window, state, pause_event, stop_event,
                 timing_data, log_lines, typo_stats, burst, cpc, carg, ncalls, nstarts, last_stats>>

\* The countdown going on to the main loop without publishing TYPING.
CdWake_StateNotSet(t) ==
  /\ threads[t].pc = "cd_sleep"
  /\ IF threads[t].remaining > 1
     THEN CdRound(t, threads[t].remaining - 1)
     ELSE /\ out' = <<>>
          /\ SetThread(t, [threads[t] EXCEPT !.pc = "loop", !.remaining = 0])
          /\ UNCHANGED <<state, log_lines>>
  /\ UNCHANGED <<fcall, config, models_config, call_limit, pause_window, pause_event, stop_event, timing_data, typo_stats,
                 burst, cpc, carg, ncalls, nstarts, last_stats>>

\* The countdown going one round further, down to 0.
CdWake_DownToZero(t) ==
  /\ threads[t].pc = "cd_sleep"
  /\ IF threads[t].remaining > 0
     THEN CdRound(t, threads[t].remaining - 1)
     ELSE CdDone(t)
  /\ UNCHANGED <<fcall, config, models_config, call_limit, pause_window, pause_event, stop_event, timing_data, typo_stats,
                 burst, cpc, carg, ncalls, nstarts, last_stats>>

\* The sleep of line 249 returns: the next round or, after the last one,
\* lines 251-255.
CdWake(t) ==
  /\ threads[t].pc = "cd_sleep"
  /\ IF threads[t].remaining > 1
     THEN CdRound(t, threads[t].remaining - 1)
     ELSE CdDone(t)
  /\ UNCHANGED <<fcall, config, models_config, call_limit, pause_window, pause_event, stop_event, timing_data, typo_stats,
                 burst, cpc, carg, ncalls, nstarts, last_stats>>

\* Lines 257-259: with i < total the thread calls self._pause_event.wait().
\* The call returns at once when the gate is open; otherwise the thread
\* blocks until a set() notifies it (Wake).
GateWait(t) ==
  /\ threads[t].pc = "loop"
  /\ threads[t].i < Len(threads[t].text)
  /\ SetThread(t, [threads[t] EXCEPT
                     !.pc = IF pause_event THEN "go" ELSE "wait"])
  /\ out' = <<>>
  /\ UNCHANGED <<fcall, config, models_config, call_limit, pause_window, state, pause_event,
                 stop_event, timing_data, log_lines, typo_stats, burst, cpc,
                 carg, ncalls, nstarts, last_stats>>

\* Lines 259-279: wait() returns, at once ("go") or after a set() notified
\* the thread ("woken"), whatever the gate is by now; the stop test of the
\* loop top, the delay and the typo decision of text[i]; the pacing sleep
\* follows unless dry_run.  (_resume_index, written here and read nowhere, is
\* not part of the state.)
LoopTop(t) ==
  /\ threads[t].pc \in {"go", "woken"}
  /\ IF stop_event
     THEN /\ Exit(t)
          /\ UNCHANGED <<typo_stats, burst>>
     ELSE LET th == threads[t]
              total == Len(th.text)
              char == th.text[th.i + 1]
              next_char == IF th.i < total - 1 THEN th.text[th.i + 2] ELSE NoneChar
          IN  /\ \E size \in BurstSizes(models_config) :
                   burst' = burst_after_delay(models_config, burst, size)
              /\ \E delay \in DelayDraws(models_config), d \in Draws(char, models_config) :
                   LET r == process_char(char, th.prev_char, next_char,
                                         models_config,
                                         typo_stats, d)
                   IN  /\ typo_stats' = r.stats
                       /\ SetThread(t, [th EXCEPT
                            !.pc = IF th.dry_run THEN "act" ELSE "sleep",
                            !.actions = r.actions, !.k = 1,
                            !.skip_next = r.skip_next,
                            !.sample = Sample(char, th.prev_char, th.i, delay)])
  /\ out' = <<>>
  /\ UNCHANGED <<fcall, config, models_config, call_limit, pause_window, state, pause_event, stop_event, timing_data,
                 log_lines, cpc, carg, ncalls, nstarts, last_stats>>

\* The log tag of an action (lines 300, 308, 315).
LogTag(action) ==
  CASE action.action_type = "TYPE" -> "type"
    [] action.action_type = "BACKSPACE" -> "backspace"
    [] OTHER -> "pause"

\* A call of _simulate_key_precise (mode 1) or _simulate_key_simple (mode 0).
EmitEv(t, char, precise) == Ev("emit", t, char, 1, IF precise THEN 1 ELSE 0)

\* What the emission sink is asked for when an action begins (lines 288-295,
\* 306-307); a Pause action sleeps and emits nothing.
SinkCalls(t, action) ==
  CASE action.action_type = "TYPE" -> <<EmitEv(t, action.char, threads[t].precise)>>
    [] action.action_type = "BACKSPACE" -> <<Ev("backspace", t, "", action.count, 0)>>
    [] OTHER -> <<>>

\* Lines 279-317: the pacing sleep or the previous action has returned; the
\* stop test before the next action, then the action begins.  In a dry run
\* nothing is emitted and nothing sleeps, so the action is its log line;
\* otherwise its emission or sleep is in flight until ActEnd.
ActBegin(t) ==
  /\ threads[t].pc \in {"sleep", "act"}
  /\ threads[t].k <= Len(threads[t].actions)
  /\ LET action == threads[t].actions[threads[t].k]
     IN  IF stop_event
         THEN /\ Exit(t)
              /\ out' = <<>>
              /\ UNCHANGED log_lines
         ELSE IF threads[t].dry_run
         THEN /\ log_lines' = log_lines + 1
              /\ out' = <<LogEv(t, LogTag(action))>>
              /\ SetThread(t, [threads[t] EXCEPT !.k = @ + 1])
         ELSE /\ out' = SinkCalls(t, action)
              /\ SetThread(t, [threads[t] EXCEPT !.pc = "inact",
                   !.emitted = IF action.action_type = "TYPE"
                               THEN Append(@, action.char) ELSE @])
              /\ UNCHANGED log_lines
  /\ UNCHANGED <<fcall, config, models_config, call_limit, pause_window, state, pause_event, stop_event, timing_data,
                 typo_stats, burst, cpc, carg, ncalls, nstarts, last_stats>>

\* The emission or sleep of the action returns and its log line is written.
ActEnd(t) ==
  /\ threads[t].pc = "inact"
  /\ log_lines' = log_lines + 1
  /\ out' = <<LogEv(t, LogTag(threads[t].actions[threads[t].k]))>>
  /\ SetThread(t, [threads[t] EXCEPT !.pc = "act", !.k = @ + 1])
  /\ UNCHANGED <<fcall, config, models_config, call_limit, pause_window, state, pause_event, stop_event, timing_data,
                 typo_stats, burst, cpc, carg, ncalls, nstarts, last_stats>>

\* The keyboard controller raises inside the sink call in flight.  For a Type
\* action line 294 catches the exception and calls _simulate_key_simple with
\* the same character (in either mode); nothing is logged there.  For a
\* Backspace action nothing catches it: _run ends with the exception.
ActFail(t) ==
  /\ threads[t].pc = "inact"
  /\ config.sink_faulty
  /\ LET action == threads[t].actions[threads[t].k]
     IN  /\ action.action_type \in {"TYPE", "BACKSPACE"}
         /\ IF action.action_type = "TYPE"
            THEN /\ out' = <<EmitEv(t, action.char, FALSE)>>
                 /\ SetThread(t, [threads[t] EXCEPT !.pc = "fallback",
                                    !.emitted = Append(@, action.char)])
            ELSE /\ out' = <<Ev("raise", t, "", 0, 0)>>
                 /\ Exit(t)
  /\ UNCHANGED <<fcall, config, models_config, call_limit, pause_window, state, pause_event, stop_event, timing_data,
                 log_lines, typo_stats, burst, cpc, carg, ncalls, nstarts, last_stats>>

\* The _simulate_key_simple call of line 295 returns; the log line of the
\* action (lines 298-303) is written as after any Type action.
FallbackEnd(t) ==
  /\ threads[t].pc = "fallback"
  /\ log_lines' = log_lines + 1
  /\ out' = <<LogEv(t, LogTag(threads[t].actions[threads[t].k]))>>
  /\ SetThread(t, [threads[t] EXCEPT !.pc = "act", !.k = @ + 1])
  /\ UNCHANGED <<fcall, config, models_config, call_limit, pause_window, state, pause_event, stop_event, timing_data,
                 typo_stats, burst, cpc, carg, ncalls, nstarts, last_stats>>

\* The _simulate_key_simple call of line 295 raises as well: the exception
\* leaves the handler and ends _run.
FallbackFail(t) ==
  /\ threads[t].pc = "fallback"
  /\ config.sink_faulty
  /\ out' = <<Ev("raise", t, "", 0, 0)>>
  /\ Exit(t)
  /\ UNCHANGED <<fcall, config, models_config, call_limit, pause_window, state, pause_event, stop_event, timing_data,
                 log_lines, typo_stats, burst, cpc, carg, ncalls, nstarts, last_stats>>

\* The sample of text[i] taken one action early: the loop over the actions
\* left before its last action.
Record_BeforeLastAction(t) ==
  /\ threads[t].pc = "act"
  /\ threads[t].k >= Len(threads[t].actions)
  /\ timing_data' = Append(timing_data, threads[t].sample)
  /\ out' = <<Ev("progress", t, "", threads[t].i + 1, Len(threads[t].text))>>
  /\ SetThread(t, [threads[t] EXCEPT !.pc = "advance"])
  /\ UNCHANGED <<fcall, config, models_config, call_limit, pause_window, state, pause_event, stop_event, log_lines,
                 typo_stats, burst, cpc, carg, ncalls, nstarts, last_stats>>

\* Lines 319-323, after the last action of text[i]: the sample is appended
\* and the progress callback invoked.
Record(t) ==
  /\ threads[t].pc = "act"
  /\ threads[t].k > Len(threads[t].actions)
  /\ timing_data' = Append(timing_data, threads[t].sample)
  /\ out' = <<Ev("progress", t, "", threads[t].i + 1, Len(threads[t].text))>>
  /\ SetThread(t, [threads[t] EXCEPT !.pc = "advance"])
  /\ UNCHANGED <<fcall, config, models_config, call_limit, pause_window, state, pause_event, stop_event, log_lines,
                 typo_stats, burst, cpc, carg, ncalls, nstarts, last_stats>>

\* The cursor advanced by 2 after every character, transposed or not.
Advance_AlwaysSkips(t) ==
  /\ threads[t].pc = "advance"
  /\ LET th == threads[t]
         total == Len(th.text)
         char == th.text[th.i + 1]
         extra == th.skip_next /\ th.i + 1 < total
     IN  /\ IF extra
            THEN /\ \E next_delay \in DelayDraws(models_config) :
                      timing_data' = Append(timing_data,
                        Sample(th.text[th.i + 2], char, th.i + 1, next_delay))
                 /\ \E size \in BurstSizes(models_config) :
                      burst' = burst_after_delay(models_config, burst, size)
            ELSE UNCHANGED <<timing_data, burst>>
         /\ SetThread(t, [th EXCEPT
              !.pc = "loop",
              !.prev_char = IF extra THEN th.text[th.i + 2] ELSE char,
              !.i = @ + 2,
              !.actions = <<>>, !.k = 0, !.skip_next = FALSE,
              !.sample = Sample(NoneChar, NoneChar, 0, 0)])
  /\ out' = <<>>
  /\ UNCHANGED <<fcall, config, models_config, call_limit, pause_window, state, pause_event, stop_event, log_lines,
                 typo_stats, cpc, carg, ncalls, nstarts, last_stats>>

\* Lines 325-336, the progress callback has returned: after a transposition
\* the delay and the sample of text[i+1]; then the cursor.
Advance(t) ==
  /\ threads[t].pc = "advance"
  /\ LET th == threads[t]
         total == Len(th.text)
         char == th.text[th.i + 1]
         extra == th.skip_next /\ th.i + 1 < total
     IN  /\ IF extra
            THEN /\ \E next_delay \in DelayDraws(models_config) :
                      timing_data' = Append(timing_data,
                        Sample(th.text[th.i + 2], char, th.i + 1, next_delay))
                 /\ \E size \in BurstSizes(models_config) :
                      burst' = burst_after_delay(models_config, burst, size)
            ELSE UNCHANGED <<timing_data, burst>>
         /\ SetThread(t, [th EXCEPT
              !.pc = "loop",
              !.prev_char = IF extra THEN th.text[th.i + 2] ELSE char,
              !.i = IF th.skip_next THEN @ + 2 ELSE @ + 1,
              !.actions = <<>>, !.k = 0, !.skip_next = FALSE,
              !.sample = Sample(NoneChar, NoneChar, 0, 0)])
  /\ out' = <<>>
  /\ UNCHANGED <<fcall, config, models_config, call_limit, pause_window, state, pause_event, stop_event, log_lines,
                 typo_stats, cpc, carg, ncalls, nstarts, last_stats>>

\* The delays of the samples, in order (line 348).
Delays(data) == [j \in 1..Len(data) |-> data[j].delay]

SumSeq(s) == SumTo(s, Len(s))

MinSeq(s) == CHOOSE x \in {s[j] : j \in 1..Len(s)} : \A j \in 1..Len(s) : x <= s[j]

MaxSeq(s) == CHOOSE x \in {s[j] : j \in 1..Len(s)} : \A j \in 1..Len(s) : x >= s[j]

RECURSIVE FloatExponent(_)
\* The exponent k of the double nearest to n / 20 (n > 0): 2^k <= n / 20 <
\* 2^(k + 1).
FloatExponent(n) ==
  IF n >= 40 THEN FloatExponent(n \div 2) + 1
  ELSE IF n < 20 THEN FloatExponent(2 * n) - 1
  ELSE 0

\* 2^e modulo 5, e >= 0.
Pow2Mod5(e) == <<1, 2, 4, 3>>[(e % 4) + 1]

\* Where the double nearest to the decimal tie n / 20 (n odd, n > 0) lies:
\* its 53-bit significand is n * 2^(50 - k) / 5 rounded to an integer, so the
\* remainder of n * 2^(50 - k) modulo 5 tells whether the double is the tie
\* itself (0), below it (1, 2) or above it (3, 4).
TieSide(n) ==
  LET rem == ((n % 5) * Pow2Mod5(50 - FloatExponent(n))) % 5
  IN  IF rem = 0 THEN "exact" ELSE IF rem <= 2 THEN "below" ELSE "above"

\* round(num / den, 1) in tenths.  The float num / den is the double nearest
\* to the quotient and round() rounds that double correctly: a quotient
\* half-way between two tenths goes where its double lies, and to the even
\* digit only when the double is the tie itself (x.25, x.75).
RoundTenths(num, den) ==
  LET q == (10 * num) \div den
      r == (10 * num) % den
      n == 2 * q + 1
      side == TieSide(IF n > 0 THEN n ELSE -n)
  IN  IF 2 * r < den THEN q
      ELSE IF 2 * r > den THEN q + 1
      ELSE IF side = "exact" THEN (IF q % 2 = 0 THEN q ELSE q + 1)
      ELSE IF (side = "below") = (n > 0) THEN q
      ELSE q + 1

\* TyperEngine._build_stats: total_chars, the number of samples read, the
\* delay figures in tenths of a millisecond (0 when there is no sample) and
\* the typo counters.  The figures derived from the wall clock are left out.
build_stats(total_chars) ==
  LET delays == Delays(timing_data)
  IN  [total_chars |-> total_chars, samples |-> Len(timing_data),
       avg_delay_ms |-> IF delays = <<>> THEN 0
                        ELSE RoundTenths(SumSeq(delays), Len(delays)),
       min_delay_ms |-> IF delays = <<>> THEN 0 ELSE 10 * MinSeq(delays),
       max_delay_ms |-> IF delays = <<>> THEN 0 ELSE 10 * MaxSeq(delays),
       typo_stats |-> typo_stats]

\* The completion of a loop that tests its condition only after a first
\* character: with nothing processed the thread never gets here.
Finish_AfterFirstChar(t) ==
  /\ threads[t].pc = "loop"
  /\ threads[t].i >= Len(threads[t].text)
  /\ threads[t].i > 0
  /\ state' = "DONE"
  /\ out' = <<StateEv(t, "DONE")>>
  /\ SetThread(t, [threads[t] EXCEPT !.pc = "done"])
  /\ UNCHANGED <<fcall, config, models_config, call_limit, pause_window, pause_event, stop_event, timing_data, typo_stats,
                 log_lines, last_stats, burst, cpc, carg, ncalls, nstarts>>

\* The loop left for the completion without DONE being published.
Finish_DoneNotPublished(t) ==
  /\ threads[t].pc = "loop"
  /\ threads[t].i >= Len(threads[t].text)
  /\ out' = <<>>
  /\ SetThread(t, [threads[t] EXCEPT !.pc = "done"])
  /\ UNCHANGED <<fcall, config, models_config, call_limit, pause_window, state, pause_event, stop_event, timing_data,
                 typo_stats, log_lines, last_stats, burst, cpc, carg, ncalls, nstarts>>

\* Lines 338-340: the loop ended because i >= total; DONE is published.
Finish(t) ==
  /\ threads[t].pc = "loop"
  /\ threads[t].i >= Len(threads[t].text)
  /\ state' = "DONE"
  /\ out' = <<StateEv(t, "DONE")>>
  /\ SetThread(t, [threads[t] EXCEPT !.pc = "done"])
  /\ UNCHANGED <<fcall, config, models_config, call_limit, pause_window, pause_event, stop_event, timing_data, typo_stats,
                 log_lines, last_stats, burst, cpc, carg, ncalls, nstarts>>

\* Line 341, the state callback has returned: the stats are built from
\* timing_data and the typo counters as they are now.
FinishStats(t) ==
  /\ threads[t].pc = "done"
  /\ out' = <<>>
  /\ SetThread(t, [threads[t] EXCEPT !.pc = "log",
                     !.stats = build_stats(Len(threads[t].text))])
  /\ UNCHANGED <<fcall, config, models_config, call_limit, pause_window, state, pause_event, stop_event, timing_data,
                 typo_stats, log_lines, last_stats, burst, cpc, carg, ncalls, nstarts>>

\* Line 342: the completion is logged.
FinishLog(t) ==
  /\ threads[t].pc = "log"
  /\ log_lines' = log_lines + 1
  /\ out' = <<LogEv(t, "done")>>
  /\ SetThread(t, [threads[t] EXCEPT !.pc = "complete"])
  /\ UNCHANGED <<fcall, config, models_config, call_limit, pause_window, state, pause_event, stop_event, timing_data,
                 typo_stats, last_stats, burst, cpc, carg, ncalls, nstarts>>

\* Lines 343-344, the log callback has returned: on_complete(stats); _run
\* returns.
FinishComplete(t) ==
  /\ threads[t].pc = "complete"
  /\ last_stats' = threads[t].stats
  /\ out' = <<Ev("complete", t, "", Len(threads[t].text), 0)>>
  /\ Exit(t)
  /\ UNCHANGED <<fcall, config, models_config, call_limit, pause_window, state, pause_event, stop_event, timing_data,
                 typo_stats, log_lines, burst, cpc, carg, ncalls, nstarts>>

\* The steps in which the keyboard controller raises, and what follows.
FaultyStep(t) ==
  \/ ActFail(t)
  \/ FallbackEnd(t)
  \/ FallbackFail(t)

ThreadStep(t) ==
  \/ Begin(t)
  \/ CdCheck(t)
  \/ CdCallback(t)
  \/ CdWake(t)
  \/ GateWait(t)
  \/ LoopTop(t)
  \/ ActBegin(t)
  \/ ActEnd(t)
  \/ Record(t)
  \/ Advance(t)
  \/ Finish(t)
  \/ FinishStats(t)
  \/ FinishLog(t)
  \/ FinishComplete(t)

Next ==
  \/ \E text \in Texts : StartCall(text)
  \/ StartStep
  \/ \E new_config \in UpdateConfigs : UpdateConfigCall(new_config)
  \/ UpdateModels
  \/ PauseCall
  \/ PauseBody
  \/ ResumeCall
  \/ ResumeBody
  \/ StopCall
  \/ StopBody
  \/ ToggleCall
  \/ ToggleStep
  \/ \E t \in ThreadIds : ThreadStep(t)

Spec == Init /\ [][Next]_vars

\* The longer sequences are made of start, pause, resume, stop and
\* toggle_pause calls, every start with the text of MaxLen characters.
NextLong ==
  \/ StartCall(Text(MaxLen))
  \/ StartStep
  \/ PauseCall
  \/ PauseBody
  \/ ResumeCall
  \/ ResumeBody
  \/ StopCall
  \/ StopBody
  \/ ToggleCall
  \/ ToggleStep
  \/ \E t \in ThreadIds : ThreadStep(t)

SpecLong == InitLong /\ [][NextLong]_vars


\* ---- direct calls of the typo model ----
\* Number of process_char calls in one behaviour.
MaxTypoCalls == 1

\* Characters process_char is called with: a letter, a
\* shifted symbol and the space, which has no adjacent keys.
TypoChars == {"a", "!", " "}

PrevChars == {NoneChar, "a"}

NextChars == {NoneChar, "a"}

\* TypoConfig: every combination of the three toggles, with the typo
\* probability at 0, at its default and at 100 %.
TypoConfigs ==
  {Config(FALSE, 0, prob, adj, tr, dbl, FALSE) :
     prob \in {0, 30, 10000}, adj \in BOOLEAN, tr \in BOOLEAN, dbl \in BOOLEAN}

InitTypo ==
  /\ config \in TypoConfigs
  /\ call_limit = 0
  /\ EngineInit

\* typo.process_char(char, prev_char, next_char) on the TypoModel object.
ProcessCharCall ==
  /\ typo_stats.total_chars < MaxTypoCalls
  /\ \E char \in TypoChars, prev_char \in PrevChars, next_char \in NextChars :
       \E d \in Draws(char, config) :
         LET r == process_char(char, prev_char, next_char, config, typo_stats, d)
         IN  /\ typo_stats' = r.stats
             /\ fcall' = [fn |-> "process_char", char |-> char,
                          prev_char |-> prev_char, next_char |-> next_char,
                          draws |-> d, before |-> typo_stats,
                          actions |-> r.actions, skip_next |-> r.skip_next]
  /\ UNCHANGED <<config, models_config, call_limit, pause_window, state, pause_event, stop_event,
                 timing_data, log_lines, burst, threads, cpc, carg, ncalls, nstarts,
                 last_stats, out>>

NextTypo == ProcessCharCall

SpecTypo == InitTypo /\ [][NextTypo]_vars

\* ---- runs that are never stopped ----
\* The engine when the caller never calls stop().
NextNoStop ==
  \/ \E text \in Texts : StartCall(text)
  \/ StartStep
  \/ PauseCall
  \/ PauseBody
  \/ ResumeCall
  \/ ResumeBody
  \/ ToggleCall
  \/ ToggleStep
  \/ \E t \in ThreadIds : ThreadStep(t)

\* Scheduling: a background thread that can take a step eventually takes one
\* (a thread waiting on the pause gate cannot), and a control call that has
\* passed its state test runs to its end.  Whether and when the caller makes
\* a call is left open.
Fairness ==
  /\ \A t \in ThreadIds : WF_vars(ThreadStep(t))
  /\ WF_vars(StartStep)
  /\ WF_vars(PauseBody)
  /\ WF_vars(ResumeBody)
  /\ WF_vars(ToggleStep)

\* MaxCalls calls on an engine configured for a real run, with or without a
\* countdown.
InitFair ==
  /\ config \in RealConfigs
  /\ call_limit = MaxCalls
  /\ EngineInit

SpecFair == InitFair /\ [][NextNoStop]_vars /\ Fairness

\* One more call than MaxCalls, with the countdown configuration only.
InitFairLong ==
  /\ config = CountdownConfig
  /\ call_limit = MaxCalls + 1
  /\ EngineInit

\* The longer sequences without stop(): every start with the text of MaxLen
\* characters.
NextLongNoStop ==
  \/ StartCall(Text(MaxLen))
  \/ StartStep
  \/ PauseCall
  \/ PauseBody
  \/ ResumeCall
  \/ ResumeBody
  \/ ToggleCall
  \/ ToggleStep
  \/ \E t \in ThreadIds : ThreadStep(t)

SpecFairLong == InitFairLong /\ [][NextLongNoStop]_vars /\ Fairness

\* ---- one run on a new engine ----
\* Texts of up to MaxLen + 1 characters.
RunTexts == {Text(n) : n \in 0..(MaxLen + 1)}

\* A real run with a countdown, no typo class enabled and the default base
\* delay and variance.
PlainRunConfig ==
  [Config(FALSE, MaxCountdown, 30, FALSE, FALSE, FALSE, FALSE)
     EXCEPT !.delay_variance_ms = 30]

\* A real run with the three typo classes enabled.
TypoRunConfig == Config(FALSE, 0, 30, TRUE, TRUE, TRUE, FALSE)

\* A dry run with the three typo classes enabled and a countdown configured.
DryRunConfig ==
  [Config(TRUE, MaxCountdown, 30, TRUE, TRUE, TRUE, FALSE)
     EXCEPT !.delay_variance_ms = 30]

\* A real run in precise mode with adjacent typos, on a machine whose
\* keyboard controller can raise.
PreciseFaultyConfig ==
  [Config(FALSE, 0, 30, TRUE, FALSE, FALSE, FALSE)
     EXCEPT !.precise_mode = TRUE, !.sink_faulty = TRUE]

RunConfigs == {PlainRunConfig, TypoRunConfig, DryRunConfig, PreciseFaultyConfig}

\* A new engine on which the caller makes one call.
InitRun ==
  /\ config \in RunConfigs
  /\ call_limit = 1
  /\ EngineInit

\* The caller calls start(text); the thread runs.
NextRun ==
  \/ \E text \in RunTexts : StartCall(text)
  \/ StartStep
  \/ \E t \in ThreadIds : ThreadStep(t)
  \/ \E t \in ThreadIds : FaultyStep(t)

\* A thread inside the fallback call of line 295 goes on as well.
FairnessRun ==
  /\ Fairness
  /\ \A t \in ThreadIds : WF_vars(FaultyStep(t))

SpecRun == InitRun /\ [][NextRun]_vars /\ FairnessRun

\* ---- direct calls of TypoModel.process_text ----
\* text[j] in Python: the character at the 0-based position j, an IndexError
\* at a position from len(text) on.
TextAt(text, j) == IF j < Len(text) THEN text[j + 1] ELSE "<IndexError>"

\* One tuple (index, original_char, actions) of the result.  skip_next and
\* peek are history fields, not part of the tuple: what process_char returned
\* as skip_next, and the position read for next_char (-1: none was read).
TextResult(index, char, actions, skip_next, peek) ==
  [index |-> index, char |-> char, actions |-> actions,
   skip_next |-> skip_next, peek |-> peek]

\* typo.process_text(text) is called: lines 285-286.
ProcessTextCall ==
  /\ fcall = NoCall
  /\ \E text \in RunTexts :
       fcall' = [fn |-> "process_text", pc |-> "loop", text |-> text, i |-> 0,
                 results |-> <<>>]
  /\ UNCHANGED <<config, models_config, call_limit, pause_window, state, pause_event, stop_event,
                 timing_data, log_lines, typo_stats, burst, threads, cpc, carg,
                 ncalls, nstarts, last_stats, out>>

\* The loop advancing by 1 whatever process_char returned as skip_next.
ProcessTextStep_IgnoresSkip ==
  /\ fcall.fn = "process_text"
  /\ fcall.pc = "loop"
  /\ fcall.i < Len(fcall.text)
  /\ LET text == fcall.text
         i == fcall.i
         char == TextAt(text, i)
         prev_char == IF i > 0 THEN TextAt(text, i - 1) ELSE NoneChar
         peek == IF i < Len(text) - 1 THEN i + 1 ELSE -1
         next_char == IF peek >= 0 THEN TextAt(text, peek) ELSE NoneChar
     IN  \E d \in Draws(char, config) :
           LET r == process_char(char, prev_char, next_char, config, typo_stats, d)
           IN  /\ typo_stats' = r.stats
               /\ fcall' = [fcall EXCEPT
                    !.results = Append(@, TextResult(i, char, r.actions,
                                                     r.skip_next, peek)),
                    !.i = @ + 1]
  /\ UNCHANGED <<config, models_config, call_limit, pause_window, state, pause_event, stop_event,
                 timing_data, log_lines, burst, threads, cpc, carg, ncalls, nstarts,
                 last_stats, out>>

\* One round of the loop, lines 287-298.
ProcessTextStep ==
  /\ fcall.fn = "process_text"
  /\ fcall.pc = "loop"
  /\ fcall.i < Len(fcall.text)
  /\ LET text == fcall.text
         i == fcall.i
         char == TextAt(text, i)
         prev_char == IF i > 0 THEN TextAt(text, i - 1) ELSE NoneChar
         peek == IF i < Len(text) - 1 THEN i + 1 ELSE -1
         next_char == IF peek >= 0 THEN TextAt(text, peek) ELSE NoneChar
     IN  \E d \in Draws(char, config) :
           LET r == process_char(char, prev_char, next_char, config, typo_stats, d)
           IN  /\ typo_stats' = r.stats
               /\ fcall' = [fcall EXCEPT
                    !.results = Append(@, TextResult(i, char, r.actions,
                                                     r.skip_next, peek)),
                    !.i = IF r.skip_next THEN @ + 2 ELSE @ + 1]
  /\ UNCHANGED <<config, models_config, call_limit, pause_window, state, pause_event, stop_event,
                 timing_data, log_lines, burst, threads, cpc, carg, ncalls, nstarts,
                 last_stats, out>>

\* The loop condition fails and process_text returns results (line 300).
ProcessTextReturn ==
  /\ fcall.fn = "process_text"
  /\ fcall.pc = "loop"
  /\ fcall.i >= Len(fcall.text)
  /\ fcall' = [fcall EXCEPT !.pc = "returned"]
  /\ UNCHANGED <<config, models_config, call_limit, pause_window, state, pause_event, stop_event,
                 timing_data, log_lines, typo_stats, burst, threads, cpc, carg,
                 ncalls, nstarts, last_stats, out>>

NextText ==
  \/ ProcessTextCall
  \/ ProcessTextStep
  \/ ProcessTextReturn

\* A call that has begun runs on: process_text blocks nowhere.
SpecText ==
  InitTypo /\ [][NextText]_vars /\ WF_vars(ProcessTextStep) /\ WF_vars(ProcessTextReturn)

\* ---- Python floats ----
\* A float of the program is an IEEE 754 double.  The model holds it exactly,
\* as the record [neg, m, e] that stands for the number m * 2^e, negated when
\* neg holds.  m is a natural number written in base Base, the least
\* significant digit first and the last digit not 0 (<<>> is 0); a float has
\* either m = 0, e = 0 and neg = FALSE, or an m of exactly MantBits bits.
\* Every operation computes its exact result and rounds it to MantBits bits,
\* a tie to the even neighbour, as the hardware does.  The sign of a zero is
\* not kept (0.0 == -0.0), and no value of calculate_delay leaves the range
\* of the normal doubles.  The operations are functions, so that an operand
\* is a value when the operation begins.
Base == 32768

\* Base = 2^DigitBits.
DigitBits == 15

\* The bits of the significand of a double (sys.float_info.mant_dig).
MantBits == 53

\* The natural numbers in base Base.
Digits == Seq(Nat)

Floats == [neg : BOOLEAN, m : Digits, e : Int]

\* The natural number n in base Base.
NatDigits[n \in Nat] ==
  IF n = 0 THEN <<>> ELSE <<n % Base>> \o NatDigits[n \div Base]

\* The value of the digits a, which must be below 2^31.
NatValue[a \in Digits] ==
  IF a = <<>> THEN 0 ELSE a[1] + Base * NatValue[Tail(a)]

\* a without its leading zero digits.
Trim[a \in Digits] ==
  IF a # <<>> /\ a[Len(a)] = 0 THEN Trim[SubSeq(a, 1, Len(a) - 1)] ELSE a

Digit[a \in Digits, j \in Int] == IF j >= 1 /\ j <= Len(a) THEN a[j] ELSE 0

AddFrom[a \in Digits, b \in Digits, j \in Nat, carry \in Nat] ==
  IF j > Len(a) /\ j > Len(b)
  THEN IF carry = 0 THEN <<>> ELSE <<carry>>
  ELSE LET s == Digit[a, j] + Digit[b, j] + carry
       IN  <<s % Base>> \o AddFrom[a, b, j + 1, s \div Base]

\* a + b
BigAdd[a \in Digits, b \in Digits] == Trim[AddFrom[a, b, 1, 0]]

SubFrom[a \in Digits, b \in Digits, j \in Nat, borrow \in Nat] ==
  IF j > Len(a) THEN <<>>
  ELSE LET d == Digit[a, j] - Digit[b, j] - borrow
       IN  <<(d + Base) % Base>> \o SubFrom[a, b, j + 1, IF d < 0 THEN 1 ELSE 0]

\* a - b, for a >= b
BigSub[a \in Digits, b \in Digits] == Trim[SubFrom[a, b, 1, 0]]

LessFrom[a \in Digits, b \in Digits, j \in Nat] ==
  IF j = 0 THEN FALSE
  ELSE IF a[j] # b[j] THEN a[j] < b[j]
  ELSE LessFrom[a, b, j - 1]

\* a < b
BigLess[a \in Digits, b \in Digits] ==
  IF Len(a) # Len(b) THEN Len(a) < Len(b) ELSE LessFrom[a, b, Len(a)]

MulSmallFrom[a \in Digits, k \in Nat, j \in Nat, carry \in Nat] ==
  IF j > Len(a) THEN NatDigits[carry]
  ELSE LET p == a[j] * k + carry
       IN  <<p % Base>> \o MulSmallFrom[a, k, j + 1, p \div Base]

\* a * k, for 0 <= k < Base
BigMulSmall[a \in Digits, k \in Nat] ==
  IF k = 0 THEN <<>> ELSE MulSmallFrom[a, k, 1, 0]

MulFrom[a \in Digits, b \in Digits, j \in Nat] ==
  IF j > Len(b) THEN <<>>
  ELSE BigAdd[BigMulSmall[a, b[j]], <<0>> \o MulFrom[a, b, j + 1]]

\* a * b
BigMul[a \in Digits, b \in Digits] == Trim[MulFrom[a, b, 1]]

DivSmallFrom[a \in Digits, d \in Nat, j \in Nat, rem \in Nat] ==
  IF j = 0 THEN <<>>
  ELSE LET cur == rem * Base + a[j]
       IN  DivSmallFrom[a, d, j - 1, cur % d] \o <<cur \div d>>

\* a \div d, for 0 < d < Base
BigDivSmall[a \in Digits, d \in Nat] == Trim[DivSmallFrom[a, d, Len(a), 0]]

ModSmallFrom[a \in Digits, d \in Nat, j \in Nat, rem \in Nat] ==
  IF j = 0 THEN rem ELSE ModSmallFrom[a, d, j - 1, (rem * Base + a[j]) % d]

\* a % d, for 0 < d < Base
BigModSmall[a \in Digits, d \in Nat] == ModSmallFrom[a, d, Len(a), 0]

\* a * 2^k
BigShl[a \in Digits, k \in Nat] ==
  IF a = <<>> THEN <<>>
  ELSE [j \in 1..(k \div DigitBits) |-> 0] \o BigMulSmall[a, 2^(k % DigitBits)]

\* a \div 2^k
BigShr[a \in Digits, k \in Nat] ==
  IF Len(a) <= k \div DigitBits THEN <<>>
  ELSE BigDivSmall[SubSeq(a, (k \div DigitBits) + 1, Len(a)), 2^(k % DigitBits)]

\* Bit k of a, bit 0 the least significant.
BigBit[a \in Digits, k \in Nat] ==
  (Digit[a, (k \div DigitBits) + 1] \div 2^(k % DigitBits)) % 2

\* The k lowest bits of a are all 0.
BigLowZero[a \in Digits, k \in Nat] ==
  /\ \A j \in 1..(k \div DigitBits) : Digit[a, j] = 0
  /\ Digit[a, (k \div DigitBits) + 1] % 2^(k % DigitBits) = 0

BitLength[n \in Nat] == IF n = 0 THEN 0 ELSE 1 + BitLength[n \div 2]

\* The number of bits of a.
BigBits[a \in Digits] ==
  IF a = <<>> THEN 0 ELSE DigitBits * (Len(a) - 1) + BitLength[a[Len(a)]]

\* q, or q + 1 when up holds.
Bump[q \in Digits, up \in BOOLEAN] == IF up THEN BigAdd[q, <<1>>] ELSE q

\* The quotient q of a by 2^k, k > 0, rounded to the nearest natural number,
\* a tie to the even one; dropped tells that the number to round is a little
\* greater than a / 2^k (by less than 2^-k).
RoundQuotient[a \in Digits, k \in Nat, dropped \in BOOLEAN, q \in Digits] ==
  Bump[q, /\ BigBit[a, k - 1] = 1
          /\ \/ dropped
             \/ ~BigLowZero[a, k - 1]
             \/ BigBit[q, 0] = 1]

\* a / 2^k rounded to the nearest natural number, a tie to the even one.
RoundShr[a \in Digits, k \in Nat, dropped \in BOOLEAN] ==
  IF k = 0 THEN a ELSE RoundQuotient[a, k, dropped, BigShr[a, k]]

FloatZero == [neg |-> FALSE, m |-> <<>>, e |-> 0]

\* The rounded significand q with exponent e: rounding up may have taken q
\* to MantBits + 1 bits, a power of 2.
Carried[neg \in BOOLEAN, q \in Digits, e \in Int] ==
  IF BigBits[q] > MantBits
  THEN [neg |-> neg, m |-> BigShr[q, 1], e |-> e + 1]
  ELSE [neg |-> neg, m |-> q, e |-> e]

\* m # 0 of MantBits + k bits, with exponent e, as a double.
RoundBits[neg \in BOOLEAN, m \in Digits, e \in Int, k \in Int, dropped \in BOOLEAN] ==
  IF k <= 0
  THEN [neg |-> neg, m |-> BigShl[m, -k], e |-> e + k]
  ELSE Carried[neg, RoundShr[m, k, dropped], e + k]

\* The double nearest to m * 2^e (negated when neg), a tie to the even
\* significand; dropped tells that the exact value lies a little above m * 2^e
\* in magnitude, by less than 2^e, which only a division produces, with an m
\* of more than MantBits + 1 bits.
RoundFloat[neg \in BOOLEAN, m \in Digits, e \in Int, dropped \in BOOLEAN] ==
  IF m = <<>> THEN FloatZero
  ELSE RoundBits[neg, m, e, BigBits[m] - MantBits, dropped]

Abs[n \in Int] == IF n < 0 THEN -n ELSE n

\* float(n) for an int n.
FloatInt[n \in Int] == RoundFloat[n < 0, NatDigits[Abs[n]], 0, FALSE]

\* num / b for the digits num, shifted left by 5 * DigitBits bits.
RatioOf[neg \in BOOLEAN, num \in Digits, b \in Nat] ==
  RoundFloat[neg, BigDivSmall[num, b], -(5 * DigitBits),
             BigModSmall[num, b] # 0]

\* The float a / b for ints a and b, 0 < b < Base: the true division of
\* Python, and the float a literal such as 0.8 (800 / 1000) denotes.
FloatRatio[a \in Int, b \in Nat] ==
  RatioOf[a < 0, BigShl[NatDigits[Abs[a]], 5 * DigitBits], b]

FloatNeg[x \in Floats] ==
  IF x.m = <<>> THEN x ELSE [x EXCEPT !.neg = ~x.neg]

\* a * 2^e, negated when xneg, plus b * 2^e, negated when yneg.
AddAligned[xneg \in BOOLEAN, a \in Digits, yneg \in BOOLEAN, b \in Digits, e \in Int] ==
  IF xneg = yneg THEN RoundFloat[xneg, BigAdd[a, b], e, FALSE]
  ELSE IF BigLess[a, b] THEN RoundFloat[yneg, BigSub[b, a], e, FALSE]
  ELSE RoundFloat[xneg, BigSub[a, b], e, FALSE]

\* x + y
FloatAdd[x \in Floats, y \in Floats] ==
  IF x.m = <<>> THEN y
  ELSE IF y.m = <<>> THEN x
  ELSE LET e == IF x.e < y.e THEN x.e ELSE y.e
       IN  AddAligned[x.neg, BigShl[x.m, x.e - e], y.neg,
                      BigShl[y.m, y.e - e], e]

\* x * y
FloatMul[x \in Floats, y \in Floats] ==
  IF x.m = <<>> \/ y.m = <<>> THEN FloatZero
  ELSE RoundFloat[x.neg # y.neg, BigMul[x.m, y.m], x.e + y.e, FALSE]

\* x < y
FloatLess[x \in Floats, y \in Floats] == FloatAdd[x, FloatNeg[y]].neg

\* max(x, y) of Python: y only when it is greater than x.
FloatMax[x \in Floats, y \in Floats] == IF FloatLess[x, y] THEN y ELSE x

\* n, negated when neg.
Signed[neg \in BOOLEAN, n \in Nat] == IF neg THEN -n ELSE n

\* round(x, ndigits) as a number of units of 10^-ndigits, scale = 10^ndigits:
\* Python rounds the exact value of the double, a tie to the even unit.
RoundDigits[x \in Floats, scale \in Nat] ==
  Signed[x.neg,
         IF x.e >= 0
         THEN NatValue[BigShl[BigMulSmall[x.m, scale], x.e]]
         ELSE NatValue[RoundShr[BigMulSmall[x.m, scale], -x.e, FALSE]]]

\* ---- TimingModel.calculate_delay ----
\* The *_ms fields of TimingConfig are ints, in milliseconds.  The speed
\* factors and the fatigue factor are written in thousandths: 800 is the
\* float 0.8, which is FloatRatio[800, 1000].  The delay is a float of
\* milliseconds.  In a breakdown a rounded entry (round(x, 1)) is in tenths
\* of a millisecond ('final' 1655 is 165.5), 'fatigue_multiplier'
\* (round(x, 4)) in ten-thousandths (10333 is 1.0333), a factor entry in
\* thousandths and the shift entry in milliseconds, as configured.
TimingConfig(base, variance, on, factor, pause, brst, fatigue) ==
  [base_delay_ms |-> base, delay_variance_ms |-> variance,
   word_boundary_enabled |-> on, intra_word_speed_factor |-> factor,
   inter_word_pause_ms |-> pause,
   punctuation_pause_enabled |-> on, punctuation_pause_ms |-> 2 * pause,
   newline_pause_enabled |-> on, newline_pause_ms |-> 4 * pause,
   shift_penalty_enabled |-> on, shift_penalty_ms |-> pause \div 4,
   double_letter_enabled |-> on, double_letter_speed_factor |-> factor - 200,
   burst_enabled |-> brst, burst_length_min |-> 1, burst_length_max |-> 2,
   burst_pause_ms |-> pause \div 3,
   fatigue_enabled |-> on, fatigue_factor |-> fatigue]

\* Every feature on with magnitudes close to the defaults of TimingConfig;
\* the same with burst off; every feature off and no variance; every
\* magnitude and factor 0; every magnitude and factor negative.
AllOnTiming == TimingConfig(70, 30, TRUE, 800, 120, TRUE, 50)

NoBurstTiming == TimingConfig(70, 30, TRUE, 800, 120, FALSE, 100)

RobotTiming == TimingConfig(70, 0, FALSE, 800, 120, FALSE, 100)

ZeroTiming == TimingConfig(0, 0, TRUE, 200, 0, TRUE, 0)

NegativeTiming == TimingConfig(-70, 30, TRUE, -800, -120, TRUE, -100)

\* The word boundary on with the newline pause off, and the reverse.
NoNewlineTiming == [NoBurstTiming EXCEPT !.newline_pause_enabled = FALSE]

NoWordTiming == [NoBurstTiming EXCEPT !.word_boundary_enabled = FALSE]

TimingConfigs ==
  {AllOnTiming, NoBurstTiming, RobotTiming, ZeroTiming, NegativeTiming,
   NoNewlineTiming, NoWordTiming}

PUNCTUATION_CHARS == {".", ",", "!", "?", ":", ";"}

\* str.lower() on one character.
Lower(c) == IF c \in DOMAIN LOWER_OF THEN LOWER_OF[c] ELSE c

\* random.gauss(0, sigma) returns z * sigma for a standard normal deviate z,
\* of which the model draws two: one far below the mean, which takes a pause
\* or the delay below 0, and one above it.
GaussDraws == {-4, 2}

\* The float random.gauss(0, sigma) returns for the deviate z.
Gauss(z, sigma) == FloatMul[FloatInt[z], sigma]

\* add = ms * (1 + random.gauss(0, spread)); add = max(0, add), with the
\* literal spread (0.3, 0.2) in thousandths.
ScaledPause(ms, z, spread) ==
  LET add == FloatMul[FloatInt[ms],
                      FloatAdd[FloatInt[1], Gauss(z, FloatRatio[spread, 1000])]]
  IN  FloatMax[FloatZero, add]

\* delay += add; breakdown[key] = round(add, 1)
AddPause(acc, key, add) ==
  [delay |-> FloatAdd[acc.delay, add],
   breakdown |-> (key :> RoundDigits[add, 10]) @@ acc.breakdown]

\* delay *= factor; breakdown[key] = factor
Scale(acc, key, factor) ==
  [delay |-> FloatMul[acc.delay, FloatRatio[factor, 1000]],
   breakdown |-> (key :> factor) @@ acc.breakdown]

\* Line 118-119.
BaseStage(cfg, g) ==
  LET delay == FloatAdd[FloatInt[cfg.base_delay_ms],
                        Gauss(g.zb, FloatRatio[cfg.delay_variance_ms, 2])]
  IN  [delay |-> delay, breakdown |-> ("base" :> RoundDigits[delay, 10])]

\* The word boundary tested with "if" instead of "elif": it is evaluated
\* after a newline pause as well.
BoundaryStage_NotExclusive(acc, char, prev_char, cfg, g) ==
  LET a2 == IF cfg.newline_pause_enabled /\ prev_char = "\n"
            THEN AddPause(acc, "newline",
                          ScaledPause(cfg.newline_pause_ms, g.zn, 300))
            ELSE acc
  IN  IF cfg.word_boundary_enabled
      THEN IF prev_char = " "
           THEN AddPause(a2, "inter_word",
                         ScaledPause(cfg.inter_word_pause_ms, g.zw, 200))
           ELSE IF prev_char # NoneChar /\ prev_char # " " /\ char # " "
           THEN Scale(a2, "intra_word_factor", cfg.intra_word_speed_factor)
           ELSE a2
      ELSE a2

\* Lines 122-139: the newline pause or else the word boundary.
BoundaryStage(acc, char, prev_char, cfg, g) ==
  IF cfg.newline_pause_enabled /\ prev_char = "\n"
  THEN AddPause(acc, "newline", ScaledPause(cfg.newline_pause_ms, g.zn, 300))
  ELSE IF cfg.word_boundary_enabled
  THEN IF prev_char = " "
       THEN AddPause(acc, "inter_word",
                     ScaledPause(cfg.inter_word_pause_ms, g.zw, 200))
       ELSE IF prev_char # NoneChar /\ prev_char # " " /\ char # " "
       THEN Scale(acc, "intra_word_factor", cfg.intra_word_speed_factor)
       ELSE acc
  ELSE acc

\* Lines 142-146.
PunctuationStage(acc, prev_char, cfg, g) ==
  IF cfg.punctuation_pause_enabled /\ prev_char \in PUNCTUATION_CHARS
  THEN AddPause(acc, "punctuation",
                ScaledPause(cfg.punctuation_pause_ms, g.zp, 300))
  ELSE acc

\* Lines 149-151.
ShiftStage(acc, char, cfg) ==
  IF cfg.shift_penalty_enabled /\ char \in SHIFT_CHARS
  THEN [delay |-> FloatAdd[acc.delay, FloatInt[cfg.shift_penalty_ms]],
        breakdown |-> ("shift" :> cfg.shift_penalty_ms) @@ acc.breakdown]
  ELSE acc

\* Lines 154-158.
DoubleLetterStage(acc, char, prev_char, cfg) ==
  IF /\ cfg.double_letter_enabled
     /\ prev_char # NoneChar
     /\ Lower(char) = Lower(prev_char)
  THEN Scale(acc, "double_letter_factor", cfg.double_letter_speed_factor)
  ELSE acc

\* _check_burst_boundary returns True (lines 82-88).
BurstBoundary(bst) == bst.counter + 1 >= bst.size

\* Lines 161-165.
BurstStage(acc, cfg, bst, g) ==
  IF cfg.burst_enabled /\ BurstBoundary(bst)
  THEN AddPause(acc, "burst", ScaledPause(cfg.burst_pause_ms, g.zu, 300))
  ELSE acc

\* Lines 168-172: progress = index / total_length; multiplier = 1.0 +
\* fatigue_factor * progress; delay *= multiplier; the breakdown holds
\* round(multiplier, 4).
FatigueStage(acc, index, total_length, cfg) ==
  IF cfg.fatigue_enabled /\ total_length > 0
  THEN LET progress == FloatRatio[index, total_length]
           multiplier ==
             FloatAdd[FloatInt[1],
                      FloatMul[FloatRatio[cfg.fatigue_factor, 1000], progress]]
       IN  [delay |-> FloatMul[acc.delay, multiplier],
            breakdown |-> ("fatigue_multiplier" :> RoundDigits[multiplier, 10000])
                            @@ acc.breakdown]
  ELSE acc

\* The clamp without effect: the accumulated delay is returned as it is.
ClampStage_NoClamp(acc) ==
  [delay |-> acc.delay,
   breakdown |-> ("final" :> RoundDigits[acc.delay, 10]) @@ acc.breakdown]

\* Lines 175-178.
ClampStage(acc) ==
  LET final == FloatMax[FloatInt[MinDelay], acc.delay]
  IN  [delay |-> final,
       breakdown |-> ("final" :> RoundDigits[final, 10]) @@ acc.breakdown]

\* The gaussian draws of one calculate_delay call (zb base, zn newline,
\* zw inter-word, zp punctuation, zu burst) and the burst length randint
\* returns at a burst boundary; a draw the call does not make is 0.
TimingDraws(prev_char, cfg, bst) ==
  LET newline == cfg.newline_pause_enabled /\ prev_char = "\n"
      boundary == cfg.burst_enabled /\ BurstBoundary(bst)
  IN  [zb : GaussDraws,
       zn : IF newline THEN GaussDraws ELSE {0},
       zw : IF ~newline /\ cfg.word_boundary_enabled /\ prev_char = " "
            THEN GaussDraws ELSE {0},
       zp : IF cfg.punctuation_pause_enabled /\ prev_char \in PUNCTUATION_CHARS
            THEN GaussDraws ELSE {0},
       zu : IF boundary THEN GaussDraws ELSE {0},
       size : IF boundary THEN BurstSizes(cfg) ELSE {0}]

\* The element of the one-element set S.
TheOne(S) == CHOOSE x \in S : TRUE

\* TimingModel.calculate_delay: the delay, the breakdown and the burst state
\* the call leaves.  The stages run in the order of the code, BaseStage
\* first; each stage receives the value the stage before it left.
calculate_delay(char, prev_char, index, total_length, cfg, bst, g) ==
  TheOne({[delay |-> r.delay, breakdown |-> r.breakdown,
           burst |-> burst_after_delay(cfg, bst, g.size)] :
     r \in {ClampStage(a8) :
     a8 \in {FatigueStage(a7, index, total_length, cfg) :
     a7 \in {BurstStage(a6, cfg, bst, g) :
     a6 \in {DoubleLetterStage(a5, char, prev_char, cfg) :
     a5 \in {ShiftStage(a4, char, cfg) :
     a4 \in {PunctuationStage(a3, prev_char, cfg, g) :
     a3 \in {BoundaryStage(a1, char, prev_char, cfg, g) :
     a1 \in {BaseStage(cfg, g)}}}}}}}}})

\* ---- direct calls of the timing model ----
TimingChars == {"a", "A", " "}

TimingPrevChars == {NoneChar, "a", " ", "\n", "."}

\* (index, total_length): every position of a text of up to MaxLen + 2
\* characters, and a call with total_length 0.
TimingPositions ==
  {<<0, 0>>} \cup {p \in (0..(MaxLen + 1)) \X (1..(MaxLen + 2)) : p[1] < p[2]}

InitTiming ==
  /\ config \in TimingConfigs
  /\ call_limit = 0
  /\ EngineInit

\* timing.calculate_delay(char, prev_char, index, total_length) on a
\* TimingModel object.
CalculateDelayCall ==
  /\ fcall = NoCall
  /\ \E char \in TimingChars, prev_char \in TimingPrevChars,
        pos \in TimingPositions :
       \E g \in TimingDraws(prev_char, config, burst) :
         \E r \in {calculate_delay(char, prev_char, pos[1], pos[2], config,
                                   burst, g)} :
             /\ burst' = r.burst
             /\ fcall' = [fn |-> "calculate_delay", char |-> char,
                          prev_char |-> prev_char, index |-> pos[1],
                          total_length |-> pos[2], draws |-> g, before |-> burst,
                          delay |-> r.delay, breakdown |-> r.breakdown]
  /\ UNCHANGED <<config, models_config, call_limit, pause_window, state, pause_event, stop_event,
                 timing_data, log_lines, typo_stats, threads, cpc, carg, ncalls, nstarts,
                 last_stats, out>>

\* ---- direct calls of TimingModel.calculate_all ----
\* Texts calculate_all is called with: letters only, and texts with a
\* capital, a full stop, a space and a newline.
TimingTexts == RunTexts \cup {<<"A", ".", " ">>, <<"\n", "a">>}

\* One tuple (char, delay, breakdown) of the result.  prev_char and index are
\* history fields, not part of the tuple: the arguments of the calculate_delay
\* call that computed it.
TimingResult(char, delay, breakdown, prev_char, index) ==
  [char |-> char, delay |-> delay, breakdown |-> breakdown,
   prev_char |-> prev_char, index |-> index]

\* timing.calculate_all(text) is called: reset() and lines 188-189.  reset
\* is a history field: the burst state reset() left.
CalculateAllCall ==
  /\ fcall = NoCall
  /\ \E text \in TimingTexts, size \in BurstSizes(config) :
       /\ burst' = reset_burst(config, size)
       /\ fcall' = [fn |-> "calculate_all", pc |-> "loop", text |-> text,
                    i |-> 0, prev_char |-> NoneChar, results |-> <<>>,
                    reset |-> reset_burst(config, size)]
  /\ UNCHANGED <<config, models_config, call_limit, pause_window, state, pause_event, stop_event,
                 timing_data, log_lines, typo_stats, threads, cpc, carg, ncalls, nstarts,
                 last_stats, out>>

\* The loop passing its own character as prev_char.
CalculateAllStep_PrevIsChar ==
  /\ fcall.fn = "calculate_all"
  /\ fcall.pc = "loop"
  /\ fcall.i < Len(fcall.text)
  /\ LET text == fcall.text
         i == fcall.i
         char == TextAt(text, i)
     IN  \E g \in TimingDraws(char, config, burst) :
           \E r \in {calculate_delay(char, char, i, Len(text), config, burst, g)} :
               /\ burst' = r.burst
               /\ fcall' = [fcall EXCEPT
                    !.results = Append(@, TimingResult(char, r.delay, r.breakdown,
                                                       char, i)),
                    !.prev_char = char,
                    !.i = @ + 1]
  /\ UNCHANGED <<config, models_config, call_limit, pause_window, state, pause_event, stop_event,
                 timing_data, log_lines, typo_stats, threads, cpc, carg, ncalls, nstarts,
                 last_stats, out>>

\* One round of the loop, lines 191-194.
CalculateAllStep ==
  /\ fcall.fn = "calculate_all"
  /\ fcall.pc = "loop"
  /\ fcall.i < Len(fcall.text)
  /\ LET text == fcall.text
         i == fcall.i
         char == TextAt(text, i)
     IN  \E g \in TimingDraws(fcall.prev_char, config, burst) :
           \E r \in {calculate_delay(char, fcall.prev_char, i, Len(text), config,
                                     burst, g)} :
               /\ burst' = r.burst
               /\ fcall' = [fcall EXCEPT
                    !.results = Append(@, TimingResult(char, r.delay, r.breakdown,
                                                       fcall.prev_char, i)),
                    !.prev_char = char,
                    !.i = @ + 1]
  /\ UNCHANGED <<config, models_config, call_limit, pause_window, state, pause_event, stop_event,
                 timing_data, log_lines, typo_stats, threads, cpc, carg, ncalls, nstarts,
                 last_stats, out>>

\* The text is exhausted and calculate_all returns results (line 196).
CalculateAllReturn ==
  /\ fcall.fn = "calculate_all"
  /\ fcall.pc = "loop"
  /\ fcall.i >= Len(fcall.text)
  /\ fcall' = [fcall EXCEPT !.pc = "returned"]
  /\ UNCHANGED <<config, models_config, call_limit, pause_window, state, pause_event, stop_event,
                 timing_data, log_lines, typo_stats, burst, threads, cpc, carg,
                 ncalls, nstarts, last_stats, out>>

NextTiming ==
  \/ CalculateDelayCall
  \/ CalculateAllCall
  \/ CalculateAllStep
  \/ CalculateAllReturn

\* A calculate_all call that has begun runs on: it blocks nowhere.
SpecTiming ==
  InitTiming /\ [][NextTiming]_vars
    /\ WF_vars(CalculateAllStep) /\ WF_vars(CalculateAllReturn)

\* ---- direct calls of the keyboard map functions ----
\* Every key of ADJACENT_KEYS, every shifted character, and the space, the
\* newline and the tab, which are in neither.
KeyChars == DOMAIN ADJACENT_KEYS \cup SHIFT_CHARS \cup {" ", "\n", "\t"}

InitKeys ==
  /\ config = CountdownConfig
  /\ call_limit = 0
  /\ EngineInit

\* get_base_key(char); of is the character whose base key char is when the
\* call is made on the result of the call before ("" otherwise).
GetBaseKeyCall ==
  /\ \E char \in KeyChars :
       fcall' = [fn |-> "get_base_key", char |-> char, of |-> "",
                 result |-> get_base_key(char)]
  /\ UNCHANGED <<config, models_config, call_limit, pause_window, state, pause_event, stop_event,
                 timing_data, log_lines, typo_stats, burst, threads, cpc, carg,
                 ncalls, nstarts, last_stats, out>>

\* get_base_key(get_base_key(c)): the call made on the result of the
\* get_base_key call before.
GetBaseKeyAgain ==
  /\ fcall.fn = "get_base_key"
  /\ fcall.of = ""
  /\ fcall' = [fn |-> "get_base_key", char |-> fcall.result, of |-> fcall.char,
               result |-> get_base_key(fcall.result)]
  /\ UNCHANGED <<config, models_config, call_limit, pause_window, state, pause_event, stop_event,
                 timing_data, log_lines, typo_stats, burst, threads, cpc, carg,
                 ncalls, nstarts, last_stats, out>>

\* is_shift_required(char), on a character or on the base key the call
\* before returned.
IsShiftRequiredCall ==
  /\ \E char \in KeyChars \cup (IF fcall.fn = "get_base_key" THEN {fcall.result} ELSE {}) :
       fcall' = [fn |-> "is_shift_required", char |-> char,
                 of |-> IF fcall.fn = "get_base_key" /\ fcall.result = char
                        THEN fcall.char ELSE "",
                 result |-> is_shift_required(char)]
  /\ UNCHANGED <<config, models_config, call_limit, pause_window, state, pause_event, stop_event,
                 timing_data, log_lines, typo_stats, burst, threads, cpc, carg,
                 ncalls, nstarts, last_stats, out>>

\* get_adjacent_keys(char); base is what get_adjacent_keys returns for the
\* base key of char.
GetAdjacentKeysCall ==
  /\ \E char \in KeyChars :
       fcall' = [fn |-> "get_adjacent_keys", char |-> char,
                 result |-> get_adjacent_keys(char),
                 base |-> get_adjacent_keys(get_base_key(char))]
  /\ UNCHANGED <<config, models_config, call_limit, pause_window, state, pause_event, stop_event,
                 timing_data, log_lines, typo_stats, burst, threads, cpc, carg,
                 ncalls, nstarts, last_stats, out>>

NextKeys ==
  \/ GetBaseKeyCall
  \/ GetBaseKeyAgain
  \/ IsShiftRequiredCall
  \/ GetAdjacentKeysCall

SpecKeys == InitKeys /\ [][NextKeys]_vars


\* ------------------------------------------------------------ properties

\* The step is control call `op` being made.
CallStep(op) == ncalls' = ncalls + 1 /\ out'[1] = CallEv(op)

\* Thread t takes the step (a set() of the calling thread that notifies t is
\* not a step of t).
Stepped(t) == threads'[t] # threads[t] /\ cpc' = cpc /\ ncalls' = ncalls

\* The events of kind cb in a step's output, in order.
HasEv(events, cb) == \E j \in 1..Len(events) : events[j].cb = cb

HasEvOf(events, cb, t) ==
  \E j \in 1..Len(events) : events[j].cb = cb /\ events[j].t = t

\* The engine variables start() resets and the threads.
RunState == <<stop_event, pause_event, timing_data, log_lines, typo_stats,
              burst, threads>>

\* A thread that is alive and whose run no stop() has cancelled.
LiveRuns == {t \in ThreadIds : Alive(t) /\ ~Cancelled(t)}

\* Thread t has a Type or Backspace emission in flight.
Emitting(t) ==
  /\ threads[t].pc = "inact"
  /\ threads[t].actions[threads[t].k].action_type \in {"TYPE", "BACKSPACE"}

\* The edges of the state machine (spec 4.4).
AllowedEdges ==
  { <<"IDLE", "COUNTDOWN">>, <<"IDLE", "TYPING">>, <<"COUNTDOWN", "TYPING">>,
    <<"TYPING", "PAUSED">>, <<"PAUSED", "TYPING">>, <<"TYPING", "DONE">>,
    <<"COUNTDOWN", "IDLE">>, <<"TYPING", "IDLE">>, <<"PAUSED", "IDLE">> }

\* C1: every change of the engine state follows one of the listed edges.
C1_OnlyListedEdges ==
  [][state' # state => <<state, state'>> \in AllowedEdges]_vars

\* C2: at most one thread running _run is alive and not cancelled.
C2_OneLiveRun == Cardinality(LiveRuns) <= 1

\* C3: no two runs have a Type or Backspace emission in flight together.
C3_OneEmitter ==
  \A t, u \in ThreadIds : (t # u /\ Emitting(t)) => ~Emitting(u)

\* C4: once Idle (after stop()), the state leaves Idle only when a newly
\* started run publishes its first state.
C4_IdleUntilNextRun ==
  [][(state = "IDLE" /\ state' # "IDLE")
       => \E t \in ThreadIds : threads[t].pc = "begin" /\ Stepped(t)]_vars

\* C5: a run that stop() cancelled while it was in the main loop appends no
\* further sample, reports no further progress and never invokes the
\* completion callback.
C5_NothingAfterStop ==
  [][\A t \in ThreadIds :
       (threads[t].stopped_at = "loop" /\ Len(threads[t].text) > 0
          /\ Stepped(t))
         => /\ timing_data' = timing_data
            /\ ~HasEvOf(out', "progress", t)
            /\ ~HasEvOf(out', "complete", t)]_vars

\* Thread t begins its next action in this step.
BeginsAction(t) ==
  /\ threads[t].pc \in {"sleep", "act"}
  /\ \/ threads'[t].pc = "inact"
     \/ threads'[t].pc = "act" /\ threads'[t].k = threads[t].k + 1

\* C6: a run cancelled by stop() begins no further action, also when start()
\* is called again afterwards.
C6_NoActionAfterStop ==
  [][\A t \in ThreadIds : Cancelled(t) => ~BeginsAction(t)]_vars

\* C7: start() in Countdown, Typing, Paused or Done starts no thread and
\* leaves the stop signal, the pause gate, the samples, the log and the typo
\* and timing model state unchanged.
C7_StartRejectedOutsideIdle ==
  [][(CallStep("start") /\ state # "IDLE")
       => /\ UNCHANGED RunState
          /\ UNCHANGED state
          /\ cpc' = "idle"]_vars

\* A start() call was just rejected while a run is typing.
C7_Witness ==
  /\ out = <<CallEv("start")>>
  /\ cpc = "idle"
  /\ state = "TYPING"
  /\ \E t \in ThreadIds : Alive(t) /\ threads[t].pc = "inact"

\* Thread t passes the gate wait of a new source character in this step:
\* its wait() call returns at once, or the thread, notified inside wait(),
\* returns from it and loads the character.
StartsChar(t) ==
  \/ threads[t].pc = "loop" /\ threads'[t].pc = "go"
  \/ threads[t].pc = "woken" /\ threads'[t].pc \in {"sleep", "act"}

\* C8: from the moment pause() has armed the gate until resume() or stop() is
\* called, no thread passes the gate wait and starts processing a new source
\* character; a character whose gate wait had returned before may complete.
C8_NoNewCharWhilePaused ==
  [][pause_window => \A t \in ThreadIds : ~StartsChar(t)]_vars

\* C9: pause() outside Typing and resume() outside Paused, called directly
\* or by toggle_pause(), change nothing and deliver no callback; resume() in
\* Paused is accepted, sets the state to Typing and opens the gate, which is
\* open when the call returns.
C9_PauseResumeGuards ==
  [][/\ (CallStep("pause") /\ state # "TYPING")
          => /\ UNCHANGED RunState
             /\ UNCHANGED state
             /\ out' = <<CallEv("pause")>>
             /\ cpc' = "idle"
     /\ (CallStep("resume") /\ state # "PAUSED")
          => /\ UNCHANGED RunState
             /\ UNCHANGED state
             /\ out' = <<CallEv("resume")>>
             /\ cpc' = "idle"
     /\ (cpc = "toggle_pause" /\ state # "TYPING" /\ cpc' # cpc)
          => /\ UNCHANGED RunState
             /\ UNCHANGED state
             /\ out' = <<>>
             /\ cpc' = "idle"
     /\ (cpc = "toggle_resume" /\ state # "PAUSED" /\ cpc' # cpc)
          => /\ UNCHANGED RunState
             /\ UNCHANGED state
             /\ out' = <<>>
             /\ cpc' = "idle"
     /\ (CallStep("resume") /\ state = "PAUSED") => cpc' = "resume"
     /\ (cpc = "toggle_resume" /\ state = "PAUSED" /\ cpc' # cpc)
          => cpc' = "resume"
     /\ (cpc = "resume" /\ cpc' # cpc)
          => /\ state' = "TYPING"
             /\ out' = <<StateEv(0, "TYPING")>>
             /\ cpc' = "resume_set"
     /\ (cpc = "resume_set" /\ cpc' # cpc)
          => /\ pause_event'
             /\ \A t \in ThreadIds : threads'[t].pc # "wait"
             /\ cpc' = "resume_log"
     /\ (cpc = "resume_log" /\ cpc' # cpc)
          => (pause_event' /\ cpc' = "idle")]_vars

\* resume() has set the state to Typing and opened the gate, notifying a
\* thread that was waiting at the gate; its log line is still to come.
C9_Witness ==
  /\ cpc = "resume_log"
  /\ state = "TYPING"
  /\ pause_event
  /\ \E t \in ThreadIds : threads[t].pc = "woken"

\* C10: stop() in Idle or Done changes nothing: the state and the stop signal
\* stay as they are and no state-change or log callback is delivered.
C10_StopIgnoredWhenInactive ==
  [][(CallStep("stop") /\ state \in {"IDLE", "DONE"})
       => /\ state' = state
          /\ stop_event' = stop_event
          /\ ~HasEv(out', "state")
          /\ ~HasEv(out', "log")]_vars

\* ---- claims about a run that is not stopped ----
\* C11: when stop() is never called, every run started by start() gets to the
\* point where the engine is in TYPING; with a countdown configured (and no
\* dry run) the first state the run publishes is COUNTDOWN.
C11_StartReachesTyping ==
  /\ [][\A t \in ThreadIds :
          (threads[t].pc = "begin" /\ Stepped(t)
             /\ ~config.dry_run /\ config.countdown_seconds > 0)
          => state' = "COUNTDOWN"]_vars
  /\ \A t \in ThreadIds : (threads[t].pc = "begin") ~> (state = "TYPING")

C11_Witness ==
  /\ config = CountdownConfig
  /\ state = "TYPING"
  /\ \E t \in ThreadIds :
       /\ out = <<StateEv(t, "TYPING")>>
       /\ threads[t].pc = "loop"
       /\ Len(threads[t].text) = MaxLen

\* C12: when stop() is never called and every pause() is followed by a
\* resume() call, every started run gets the engine to DONE, and the stats
\* dict delivered at that point has total_chars = len(text).
C12_RunReachesDone ==
  /\ [][\A t \in ThreadIds :
          (Stepped(t) /\ HasEvOf(out', "complete", t))
          => last_stats'.total_chars = Len(threads[t].text)]_vars
  /\ ([]<>(~pause_window))
       => \A t \in ThreadIds : (threads[t].pc = "begin") ~> (state = "DONE")

\* ---- claims about one run ----
\* Thread t takes a step and goes on with the same run.
RunStep(t) ==
  Stepped(t) /\ threads[t].pc # "none" /\ threads'[t].pc \notin {"none", "begin"}

HasLog(events, tag) ==
  \E j \in 1..Len(events) : events[j].cb = "log" /\ events[j].s = tag

\* C13: the cursor of the main loop only increases, by 1 or, after a result
\* with skip_next, by 2, and stays within len(text) + 1; the character loaded
\* is text[i]; the actions of a character are executed one by one in the
\* order process_char returned them, and the cursor moves only after the last
\* of them.
C13_SourceOrder ==
  [][\A t \in ThreadIds : RunStep(t) =>
       LET th == threads[t]
           nx == threads'[t]
       IN  /\ nx.text = th.text
           /\ nx.i \in {th.i, th.i + 1, th.i + 2}
           /\ nx.i = th.i + 2 => th.skip_next
           /\ nx.i <= Len(th.text) + 1
           /\ nx.i # th.i => (th.actions # <<>> /\ th.k > Len(th.actions))
           /\ nx.actions # th.actions =>
                \/ th.actions = <<>> /\ nx.k = 1 /\ nx.i = th.i
                     /\ nx.sample.char = th.text[th.i + 1]
                \/ nx.actions = <<>> /\ nx.i # th.i
           /\ nx.actions = th.actions => nx.k \in {th.k, th.k + 1}
           /\ (nx.actions = th.actions /\ nx.k = th.k + 1)
                => HasLog(out', LogTag(th.actions[th.k]))
           /\ nx.emitted # th.emitted
                => nx.emitted = Append(th.emitted, th.actions[th.k].char)]_vars

C13_Witness ==
  \E t \in ThreadIds :
    /\ threads[t].pc = "loop"
    /\ Len(threads[t].text) = 3
    /\ threads[t].i = 2
    /\ threads[t].emitted = <<"b", "a", "a", "b">>

\* The samples are those of text, in order: one per character, each with the
\* character before it as previous character.
SamplesOf(data, text) ==
  /\ Len(data) = Len(text)
  /\ \A j \in 1..Len(data) :
       /\ data[j].char = text[j]
       /\ data[j].index = j - 1
       /\ data[j].prev_char = IF j = 1 THEN NoneChar ELSE text[j - 1]

\* C14: when a run reaches DONE, timing_data holds exactly one sample per
\* character of its text, in source order, whatever the typo outcomes were
\* and whether or not the run was a dry run.
C14_SamplesMatchText ==
  [][\A t \in ThreadIds :
       out' = <<StateEv(t, "DONE")>>
       => SamplesOf(timing_data', threads[t].text)]_vars

\* A thread sleeps (countdown, pacing, Pause action) or is inside a call of
\* the keyboard controller.
SleepsOrEmits(t) == threads[t].pc \in {"cd_sleep", "sleep", "inact", "fallback"}

\* C15: a dry run never sleeps and never calls the keyboard controller; it
\* still appends the samples, counts the characters, reports progress and
\* reaches DONE with one sample per character.
C15_DryRunNoSleepNoSink ==
  /\ [](config.dry_run =>
          /\ \A t \in ThreadIds : ~SleepsOrEmits(t)
          /\ \A j \in 1..Len(out) : out[j].cb \notin {"emit", "backspace", "countdown"})
  /\ [][\A t \in ThreadIds : (config.dry_run /\ RunStep(t)) =>
          /\ threads'[t].i # threads[t].i => threads[t].pc = "advance"
          /\ threads'[t].pc = "advance"
               => /\ Len(timing_data') = Len(timing_data) + 1
                  /\ HasEvOf(out', "progress", t)
          /\ (threads[t].actions = <<>> /\ threads'[t].actions # <<>>)
               => typo_stats'.total_chars = typo_stats.total_chars + 1]_vars
  /\ \A t \in ThreadIds :
       (config.dry_run /\ threads[t].pc = "begin")
         ~> (state = "DONE" /\ last_stats.samples = last_stats.total_chars)

C15_Witness ==
  /\ config.dry_run
  /\ state = "DONE"
  /\ last_stats.samples = 3
  /\ last_stats.typo_stats.revised >= 1
  /\ last_stats.typo_stats.transposition >= 1

\* C16: when the keyboard controller raises while a character is emitted in
\* precise mode, the run goes on: the character is emitted in simple mode, the
\* fallback is logged, and the following characters are emitted in precise
\* mode again.
C16_PreciseFailureFallsBack ==
  [][\A t \in ThreadIds : (config.precise_mode /\ RunStep(t)) =>
       LET th == threads[t]
           nx == threads'[t]
       IN  /\ (th.pc = "inact" /\ th.actions[th.k].action_type = "TYPE"
                 /\ nx.pc # "act")
                => /\ nx.pc = "fallback"
                   /\ out' = <<EmitEv(t, th.actions[th.k].char, FALSE)>>
           /\ (th.pc = "fallback" /\ nx.pc = "act") => HasLog(out', "fallback")
           /\ (th.pc \in {"sleep", "act"} /\ nx.pc = "inact"
                 /\ th.actions[th.k].action_type = "TYPE")
                => out' = <<EmitEv(t, th.actions[th.k].char, TRUE)>>]_vars

\* C17: start("") reaches DONE with total_chars 0, no sample, no progress
\* callback and the three delay figures 0; a text of one character reaches
\* DONE with exactly one sample; the thread raises in neither case.
C17_DegenerateInput ==
  /\ [][\A t \in ThreadIds :
          (Stepped(t) /\ threads[t].pc # "none" /\ ~config.sink_faulty
             /\ Len(threads[t].text) <= 1)
          => /\ ~HasEvOf(out', "raise", t)
             /\ Len(threads[t].text) = 0 => ~HasEvOf(out', "progress", t)
             /\ HasEvOf(out', "complete", t)
                  => /\ state' = "DONE"
                     /\ Len(timing_data') = Len(threads[t].text)
                     /\ last_stats'.total_chars = Len(threads[t].text)
                     /\ last_stats'.samples = Len(threads[t].text)
                     /\ Len(threads[t].text) = 0
                          => /\ last_stats'.avg_delay_ms = 0
                             /\ last_stats'.min_delay_ms = 0
                             /\ last_stats'.max_delay_ms = 0]_vars
  /\ \A t \in ThreadIds :
       (~config.sink_faulty /\ threads[t].pc = "begin" /\ Len(threads[t].text) <= 1)
         ~> (state = "DONE")

C17_Witness ==
  /\ state = "DONE"
  /\ HasEv(out, "complete")
  /\ last_stats.total_chars = 0
  /\ last_stats.min_delay_ms = 0
  /\ timing_data = <<>>
  /\ config = PlainRunConfig

\* C18: start("ab") with no typo class enabled emits exactly the two
\* characters 'a' and 'b', in this order, and reaches DONE with total_chars = 2
\* and typos = 0.
C18_PlainAb ==
  /\ [][\A t \in ThreadIds :
          (config = PlainRunConfig /\ threads[t].text = <<"a", "b">>
             /\ Stepped(t) /\ threads'[t].pc = "none")
          => /\ HasEvOf(out', "complete", t)
             /\ state' = "DONE"
             /\ threads[t].emitted = <<"a", "b">>
             /\ last_stats'.total_chars = 2
             /\ last_stats'.typo_stats.typos = 0]_vars
  /\ \A t \in ThreadIds :
       (config = PlainRunConfig /\ threads[t].pc = "begin"
          /\ threads[t].text = <<"a", "b">>)
         ~> (state = "DONE")

C18_Witness ==
  /\ config = PlainRunConfig
  /\ state = "DONE"
  /\ HasEv(out, "complete")
  /\ last_stats.total_chars = 2
  /\ Len(timing_data) = 2
  /\ timing_data[1].delay # timing_data[2].delay

\* ---- claims about the typo model ----
AllDisabled(cfg) ==
  ~cfg.adjacent_key_enabled /\ ~cfg.transposition_enabled /\ ~cfg.double_strike_enabled

\* The call realized a transposition: the transposition counter went up and
\* the actions start with Type(next_char), Type(char).
TranspositionRealized ==
  /\ typo_stats.transposition = fcall.before.transposition + 1
  /\ Len(fcall.actions) >= 2
  /\ fcall.actions[1].action_type = "TYPE"
  /\ fcall.actions[1].char = fcall.next_char
  /\ fcall.actions[2].action_type = "TYPE"
  /\ fcall.actions[2].char = fcall.char

\* C19: process_char returns skip_next = True exactly when it realized a
\* transposition; a call that realized an adjacent typo or a double strike, or
\* that counted no typo at all, returns skip_next = False.
C19_SkipNextIffTransposition ==
  fcall.fn = "process_char" =>
    /\ fcall.skip_next <=> TranspositionRealized
    /\ (\/ typo_stats.adjacent # fcall.before.adjacent
        \/ typo_stats.double_strike # fcall.before.double_strike
        \/ typo_stats.typos = fcall.before.typos) => ~fcall.skip_next

C19_Witness ==
  /\ fcall.fn = "process_char"
  /\ fcall.skip_next
  /\ Len(fcall.actions) = 2
  /\ fcall.char = "!"
  /\ fcall.next_char = "a"
  /\ typo_stats.total_chars = 1

\* C20: with the three typo classes disabled process_char returns exactly one
\* Type action with the input character and the normal label and skip_next =
\* False, whatever the characters and the typo probability, and changes no
\* counter but total_chars.
C20_AllDisabledTypesNormally ==
  (fcall.fn = "process_char" /\ AllDisabled(config)) =>
    /\ fcall.actions = <<TypeAction(fcall.char, "normal")>>
    /\ ~fcall.skip_next
    /\ typo_stats = [fcall.before EXCEPT !.total_chars = @ + 1]

C20_Witness ==
  /\ fcall.fn = "process_char"
  /\ AllDisabled(config)
  /\ config.typo_prob = 10000
  /\ fcall.draws.u1 = 0
  /\ fcall.char = "!"
  /\ fcall.next_char = "a"
  /\ typo_stats.total_chars = 1

\* The characters of a sequence.
Range(s) == {s[j] : j \in 1..Len(s)}

\* C21: with typo_prob = 0 a process_char call returns the one normal Type
\* action and counts no typo, whatever the draws and the enabled classes;
\* with typo_prob = 10000 and only the adjacent class enabled, a character
\* with adjacent keys gets a typo whose first action types one of them.
C21_ProbabilityExtremes ==
  fcall.fn = "process_char" =>
    /\ config.typo_prob = 0 =>
          /\ fcall.actions = <<TypeAction(fcall.char, "normal")>>
          /\ ~fcall.skip_next
          /\ typo_stats = [fcall.before EXCEPT !.total_chars = @ + 1]
    /\ ( /\ config.typo_prob = 10000
         /\ enabled_types(config) = <<"adjacent">>
         /\ get_adjacent_keys(fcall.char) # <<>> ) =>
          /\ typo_stats.typos = fcall.before.typos + 1
          /\ typo_stats.adjacent = fcall.before.adjacent + 1
          /\ fcall.actions[1].action_type = "TYPE"
          /\ fcall.actions[1].label = "typo"
          /\ fcall.actions[1].char \in Range(get_adjacent_keys(fcall.char))

\* A call with typo_prob = 10000 and only the adjacent class typed "@" for "!".
C21_Witness ==
  /\ fcall.fn = "process_char"
  /\ config.typo_prob = 10000
  /\ enabled_types(config) = <<"adjacent">>
  /\ fcall.char = "!"
  /\ fcall.actions[1] = TypeAction("@", "typo")

\* The cursor after the round that produced tuple r.
AfterTuple(r) == IF r.skip_next THEN r.index + 2 ELSE r.index + 1

\* The tuples of a process_text call are in source order.
TextTuplesInOrder ==
  fcall.fn = "process_text" =>
    LET r == fcall.results
        text == fcall.text
    IN  /\ r # <<>> => r[1].index = 0 /\ fcall.i = AfterTuple(r[Len(r)])
        /\ r = <<>> => fcall.i = 0
        /\ \A j \in 1..Len(r) :
             /\ r[j].index < Len(text)
             /\ r[j].char = text[r[j].index + 1]
             /\ r[j].peek < Len(text)
             /\ r[j].peek \in {-1, r[j].index + 1}
             /\ r[j].actions # <<>>
        /\ \A j \in 1..(Len(r) - 1) :
             /\ r[j + 1].index = AfterTuple(r[j])
             /\ r[j + 1].index > r[j].index
        /\ fcall.pc = "returned" => fcall.i >= Len(text)

\* C22: process_text returns tuples (index, original_char, actions) whose
\* indices start at 0 and increase, by 2 after a round whose skip_next was
\* True and by 1 otherwise, with original_char = text[index]; next_char is
\* never read at a position from len(text) on; and every call returns.
C22_ProcessTextInOrder ==
  /\ []TextTuplesInOrder
  /\ (fcall.fn = "process_text") ~> (fcall.fn = "process_text" /\ fcall.pc = "returned")

\* process_text("aba") returned two tuples: the transposition of "ab" at
\* index 0, then "a" at index 2, for which no next_char was read.
C22_Witness ==
  /\ fcall.fn = "process_text"
  /\ fcall.pc = "returned"
  /\ fcall.text = Text(3)
  /\ Len(fcall.results) = 2
  /\ fcall.results[1].skip_next
  /\ fcall.results[1].peek = 1
  /\ fcall.results[2].index = 2
  /\ fcall.results[2].peek = -1

\* The float x >= 0 differs from n tenths by at most half a tenth:
\* |20 * x - 2 * n| <= 1, computed exactly.
WithinHalfTenth(x, n) ==
  LET k == IF x.e < 0 THEN -x.e ELSE 0
      a == BigShl[BigMulSmall[x.m, 20], x.e + k]
      b == BigShl[NatDigits[2 * n], k]
      one == BigShl[<<1>>, k]
  IN  /\ n >= 0
      /\ ~x.neg
      /\ ~BigLess[BigAdd[b, one], a]
      /\ ~BigLess[BigAdd[a, one], b]

\* C23: calculate_delay never returns less than 15 ms, whatever the
\* configuration (zero and negative magnitudes and factors included) and the
\* draws, and breakdown['final'] is the returned delay rounded to a tenth.
C23_DelayAtLeastMin ==
  fcall.fn = "calculate_delay" =>
    /\ ~FloatLess[fcall.delay, FloatInt[MinDelay]]
    /\ "final" \in DOMAIN fcall.breakdown
    /\ WithinHalfTenth(fcall.delay, fcall.breakdown["final"])

\* A call under the negative configuration whose accumulated delay was
\* negative returned 15 ms.
C23_Witness ==
  /\ fcall.fn = "calculate_delay"
  /\ config = NegativeTiming
  /\ fcall.char = "A"
  /\ fcall.prev_char = " "
  /\ fcall.draws.zb = -4
  /\ fcall.delay = FloatInt[MinDelay]
  /\ fcall.breakdown["final"] = 10 * MinDelay

\* The samples of a calculate_all call follow the text.
TimingSamplesInOrder ==
  fcall.fn = "calculate_all" =>
    LET r == fcall.results
        text == fcall.text
    IN  /\ fcall.reset.counter = 0
        /\ fcall.reset.size \in BurstSizes(config)
        /\ r = <<>> => burst = fcall.reset
        /\ Len(r) = fcall.i
        /\ Len(r) <= Len(text)
        /\ \A j \in 1..Len(r) :
             /\ r[j].char = text[j]
             /\ r[j].index = j - 1
             /\ r[j].prev_char = IF j = 1 THEN NoneChar ELSE text[j - 1]
             /\ ~FloatLess[r[j].delay, FloatInt[MinDelay]]
        /\ fcall.pc = "returned" => Len(r) = Len(text)

\* C24: calculate_all(text) resets the burst state, then returns exactly
\* len(text) samples whose characters are those of the text in order, each
\* computed with the character before it as prev_char (None for the first)
\* and its own position as index.
C24_CalculateAllInOrder ==
  /\ []TimingSamplesInOrder
  /\ (fcall.fn = "calculate_all") ~> (fcall.fn = "calculate_all" /\ fcall.pc = "returned")

\* calculate_all("A. ") returned three samples, the third with the
\* punctuation pause of the full stop before it.
C24_Witness ==
  /\ fcall.fn = "calculate_all"
  /\ fcall.pc = "returned"
  /\ fcall.text = <<"A", ".", " ">>
  /\ Len(fcall.results) = 3
  /\ "shift" \in DOMAIN fcall.results[1].breakdown
  /\ fcall.results[3].prev_char = "."
  /\ "punctuation" \in DOMAIN fcall.results[3].breakdown

\* C25: get_base_key is idempotent, get_base_key(get_base_key(c)) =
\* get_base_key(c); and for a character of the shift set is_shift_required
\* is true and its base key is not in the shift set.
C25_BaseKeyIdempotent ==
  /\ fcall.fn = "get_base_key" /\ fcall.of # "" => fcall.result = fcall.char
  /\ fcall.fn = "get_base_key" /\ fcall.of = "" /\ fcall.char \in SHIFT_CHARS =>
       /\ fcall.result # fcall.char
       /\ fcall.result \notin SHIFT_CHARS
  /\ fcall.fn = "get_base_key" /\ fcall.of = "" /\ fcall.char \notin SHIFT_CHARS =>
       fcall.result = fcall.char
  /\ fcall.fn = "is_shift_required" =>
       /\ fcall.char \in SHIFT_CHARS => fcall.result
       /\ fcall.of \in SHIFT_CHARS => ~fcall.result

\* get_base_key was called on "1", the base key it returned for "!".
C25_Witness ==
  /\ fcall.fn = "get_base_key"
  /\ fcall.of = "!"
  /\ fcall.char = "1"
  /\ fcall.result = "1"

\* C26: for a shifted character get_adjacent_keys returns as many keys as
\* for its base key, the k-th being the shifted form of the k-th neighbor of
\* the base key (its UNSHIFT_MAP entry if it has one, else its capital), each
\* needing shift; for an unshifted character it returns the stored list, so
\* get_adjacent_keys('e') = ['3', '4', 'w', 'r', 's', 'd'].
C26_ShiftedNeighbors ==
  fcall.fn = "get_adjacent_keys" =>
    /\ fcall.char \in SHIFT_CHARS =>
         /\ Len(fcall.result) = Len(fcall.base)
         /\ \A k \in 1..Len(fcall.result) :
              /\ is_shift_required(fcall.result[k])
              /\ get_base_key(fcall.result[k]) = fcall.base[k]
              /\ fcall.base[k] \in UNSHIFT_DOMAIN =>
                   SHIFT_SYMBOLS[fcall.result[k]] = fcall.base[k]
              /\ fcall.base[k] \notin UNSHIFT_DOMAIN =>
                   LOWER_OF[fcall.result[k]] = fcall.base[k]
    /\ fcall.char \notin SHIFT_CHARS =>
         /\ fcall.result = fcall.base
         /\ fcall.result = IF fcall.char \in DOMAIN ADJACENT_KEYS
                           THEN ADJACENT_KEYS[fcall.char] ELSE <<>>
    /\ fcall.char = "e" => fcall.result = <<"3", "4", "w", "r", "s", "d">>
    /\ fcall.char = "E" => fcall.result = <<"#", "$", "W", "R", "S", "D">>

\* get_adjacent_keys('!') returned the shifted neighbors of '1'.
C26_Witness ==
  /\ fcall.fn = "get_adjacent_keys"
  /\ fcall.char = "!"
  /\ fcall.base = <<"<grave>", "2", "q">>
  /\ fcall.result = <<"~", "@", "Q">>

\* C27: stop() sets the stop signal and opens the gate, and a thread that was
\* waiting on the gate when stop() was called in PAUSED takes no step but the
\* return from _run: it loads no further character.
C27_StopReleasesPausedRun ==
  [][/\ CallStep("stop") => stop_event' /\ cpc' = "stop_set"
     /\ (cpc = "stop_set" /\ cpc' # cpc)
          => /\ pause_event'
             /\ \A t \in ThreadIds : threads'[t].pc # "wait"
     /\ \A t \in ThreadIds :
          threads[t].gated /\ Stepped(t) => threads'[t].pc = "none"]_vars

\* The positions in a step's output of the events cb of thread t with the
\* string s.
EvPositions(events, cb, t, s) ==
  {j \in 1..Len(events) :
     events[j].cb = cb /\ events[j].t = t /\ events[j].s = s}

\* The event publishes DONE or is a completion callback.
DoneOrComplete(e) == e.cb = "complete" \/ (e.cb = "state" /\ e.s = "DONE")

\* C28: a run publishes DONE only when its loop ended with the text
\* exhausted; the completion callback of a run is invoked only by a thread
\* that has published DONE and built its stats, once, as the last step of
\* the thread; a thread that has published DONE takes no other way out, and
\* no other step invokes the completion callback.
C28_CompleteOnceAfterDone ==
  [][/\ \A j, k \in 1..Len(out') :
          (DoneOrComplete(out'[j]) /\ DoneOrComplete(out'[k])) => j = k
     /\ \A j \in 1..Len(out') :
          DoneOrComplete(out'[j]) => out'[j].t \in ThreadIds
     /\ \A t \in ThreadIds :
          LET th == threads[t]
              nx == threads'[t]
              done == \E j \in 1..Len(out') : out'[j] = StateEv(t, "DONE")
              complete == HasEvOf(out', "complete", t)
          IN  /\ done <=> (th.pc = "loop" /\ nx.pc = "done")
              /\ done => (state' = "DONE" /\ th.i >= Len(th.text))
              /\ nx.pc = "done" => th.pc \in {"loop", "done"}
              /\ th.pc = "done" => nx.pc \in {"done", "log"}
              /\ nx.pc = "log" => th.pc \in {"done", "log"}
              /\ th.pc = "log" => nx.pc \in {"log", "complete"}
              /\ nx.pc = "complete" => th.pc \in {"log", "complete"}
              /\ th.pc = "complete" => nx.pc \in {"complete", "none"}
              /\ complete <=> (th.pc = "complete" /\ nx.pc = "none")
              /\ complete => last_stats'.total_chars = Len(th.text)]_vars

\* A run of "ab" has published DONE, logged its completion and then
\* delivered its stats.
C28_Witness ==
  /\ state = "DONE"
  /\ Len(out) = 1
  /\ out[1].cb = "complete"
  /\ out[1].n = 2
  /\ last_stats.total_chars = 2
  /\ last_stats.samples = 2

\* The countdown events of thread t in a step's output.
CountdownEvs(events, t) ==
  {j \in 1..Len(events) : events[j].cb = "countdown" /\ events[j].t = t}

\* C29: a run publishes COUNTDOWN exactly when it begins with dry_run unset
\* and countdown_seconds > 0; otherwise its first step publishes TYPING and
\* it never delivers a countdown callback.  The countdown callbacks of a run
\* report the countdown_seconds configured when the countdown loop starts
\* first and then one less each time, never less than 1, and the run goes on
\* to TYPING only after reporting 1 (or with nothing to report).
C29_CountdownWhenConfigured ==
  [][\A t \in ThreadIds :
       LET counted == ~config.dry_run /\ config.countdown_seconds > 0
           th == threads[t]
           nx == threads'[t]
           begins == th.pc = "begin" /\ nx.pc # "begin"
           reports == CountdownEvs(out', t)
       IN  /\ EvPositions(out', "state", t, "COUNTDOWN") # {} <=> begins /\ counted
           /\ begins /\ ~counted =>
                out' = <<StateEv(t, "TYPING")>> /\ state' = "TYPING"
           /\ begins /\ counted =>
                state' = "COUNTDOWN" /\ nx.pc = "cd_check"
           /\ nx.pc = "cd_check" /\ th.pc # "cd_check" => begins
           /\ nx.pc = "cd_cb" /\ th.pc # "cd_cb" =>
                /\ th.pc \in {"cd_check", "cd_sleep"}
                /\ nx.remaining >= 1
                /\ nx.remaining = IF th.pc = "cd_check"
                                  THEN config.countdown_seconds
                                  ELSE th.remaining - 1
           /\ Cardinality(reports) <= 1
           /\ \A j \in reports :
                /\ th.pc = "cd_cb"
                /\ nx.pc = "cd_sleep"
                /\ out'[j].n = th.remaining
                /\ nx.remaining = th.remaining
           /\ th.pc = "cd_cb" /\ nx.pc # "cd_cb" => reports # {}
           /\ th.pc = "cd_sleep" /\ nx.pc = "loop" =>
                th.remaining = 1 /\ state' = "TYPING"
           /\ th.pc = "cd_check" /\ nx.pc = "loop" =>
                config.countdown_seconds = 0 /\ state' = "TYPING"]_vars

\* A run has just reported 1 second remaining, after MaxCountdown.
C29_Witness ==
  /\ state = "COUNTDOWN"
  /\ \E t \in ThreadIds :
       /\ threads[t].pc = "cd_sleep"
       /\ threads[t].remaining = 1
       /\ CountdownEvs(out, t) # {}
       /\ config.countdown_seconds = MaxCountdown

\* C30: an emission that raises never ends the background thread with the
\* engine left in TYPING or PAUSED: while the state is TYPING or PAUSED the
\* thread of the run is alive.
C30_NoRunLostInTyping ==
  state \in {"TYPING", "PAUSED"} => \E t \in ThreadIds : Alive(t)

\* Thread t loads the first character of its text in this step.
LoadsFirstChar(t) ==
  /\ threads[t].pc \in {"go", "woken"}
  /\ threads[t].i = 0
  /\ threads'[t].pc \in {"sleep", "act"}

\* C31: an accepted start() leaves the sample list and the log empty, every
\* typo counter 0, the burst counter 0 with a drawn target, the stop signal
\* clear and the gate open; the run it starts finds them so when it loads
\* its first character, and the typo statistics it delivers at DONE count
\* no character of another run.
C31_FreshRunState ==
  [][/\ cpc = "start_thread" /\ cpc' = "idle" =>
          /\ timing_data' = <<>>
          /\ log_lines' = 0
          /\ typo_stats' = ZeroStats
          /\ burst'.counter = 0
          /\ burst'.size \in BurstSizes(models_config)
          /\ ~stop_event'
          /\ pause_event'
     /\ \A t \in ThreadIds :
          /\ LoadsFirstChar(t) /\ ~Cancelled(t) =>
               /\ timing_data = <<>>
               /\ typo_stats = ZeroStats
               /\ burst.counter = 0
               /\ ~stop_event
          /\ EvPositions(out', "complete", t, "") # EvPositions(out, "complete", t, "") =>
               /\ last_stats'.typo_stats.total_chars <= Len(threads[t].text)
               /\ last_stats'.samples <= Len(threads[t].text)]_vars

\* The text a receiving application holds after the actions: Type appends
\* its character, Backspace(n) deletes the last n characters, Pause types
\* nothing.
RECURSIVE TypedBuffer(_, _)
TypedBuffer(actions, n) ==
  IF n = 0 THEN <<>>
  ELSE LET buf == TypedBuffer(actions, n - 1)
           a == actions[n]
       IN  CASE a.action_type = "TYPE" -> Append(buf, a.char)
             [] a.action_type = "BACKSPACE" ->
                  SubSeq(buf, 1, Len(buf) - a.count)
             [] OTHER -> buf

\* The recorded process_char call drew a typo.
TypoDrawn ==
  /\ fcall.fn = "process_char"
  /\ enabled_types(config) # <<>>
  /\ fcall.draws.u1 < config.typo_prob

\* The class random.choice picked in the recorded call.
ChosenType == enabled_types(config)[fcall.draws.ci]

\* The picked class cannot produce a typo for the recorded arguments.
Unrealizable ==
  \/ ChosenType = "adjacent" /\ get_adjacent_keys(fcall.char) = <<>>
  \/ ChosenType = "transposition" /\ fcall.next_char = NoneChar

\* C32: the actions of a realized typo, applied to a buffer, leave the
\* source characters the call consumed when the typo is revised (char, or
\* char then next_char for a transposition); unrevised they leave one
\* adjacent key, next_char then char, or char twice.
C32_TypoNetEffect ==
  TypoDrawn /\ ~Unrealizable =>
    LET buf == TypedBuffer(fcall.actions, Len(fcall.actions))
        c == fcall.char
        nx == fcall.next_char
    IN  IF fcall.draws.u2 < config.typo_revision_prob
        THEN buf = (IF ChosenType = "transposition" THEN <<c, nx>> ELSE <<c>>)
        ELSE CASE ChosenType = "adjacent" ->
                    /\ Len(buf) = 1
                    /\ buf[1] \in Range(get_adjacent_keys(c))
               [] ChosenType = "transposition" -> buf = <<nx, c>>
               [] ChosenType = "double_strike" -> buf = <<c, c>>

\* A revised double strike of "!" typed it twice and deleted one copy.
C32_Witness ==
  /\ TypoDrawn
  /\ ChosenType = "double_strike"
  /\ fcall.char = "!"
  /\ fcall.draws.u2 < config.typo_revision_prob
  /\ Len(fcall.actions) = 5
  /\ fcall.actions[4] = BackspaceAction(1)
  /\ TypedBuffer(fcall.actions, 5) = <<"!">>

\* C33: a drawn typo whose class cannot be realized (adjacent for a character
\* without adjacent keys, transposition without a next character) returns the
\* one normal Type action with skip_next false and counts the character only.
C33_FallbackToNormal ==
  TypoDrawn /\ Unrealizable =>
    /\ fcall.actions = <<TypeAction(fcall.char, "normal")>>
    /\ ~fcall.skip_next
    /\ typo_stats = [fcall.before EXCEPT !.total_chars = @ + 1]

\* The adjacent class was picked for the space, which has no adjacent keys.
C33_Witness ==
  /\ TypoDrawn
  /\ ChosenType = "adjacent"
  /\ fcall.char = " "
  /\ fcall.actions = <<TypeAction(" ", "normal")>>
  /\ typo_stats.total_chars = fcall.before.total_chars + 1

\* C34: after any sequence of process_char calls since the last reset,
\* total_chars is the number of calls, typos is the sum of the three class
\* counters and also the sum of revised and unrevised.
C34_CounterIdentities ==
  /\ typo_stats.typos = typo_stats.adjacent + typo_stats.transposition
                          + typo_stats.double_strike
  /\ typo_stats.typos = typo_stats.revised + typo_stats.unrevised
  /\ fcall.fn = "process_text" => typo_stats.total_chars = Len(fcall.results)

\* Two calls made a revised transposition and an unrevised double strike.
C34_Witness ==
  /\ fcall.fn = "process_text"
  /\ Len(fcall.results) = 2
  /\ typo_stats = [total_chars |-> 2, typos |-> 2, adjacent |-> 0,
                   transposition |-> 1, double_strike |-> 1, revised |-> 1,
                   unrevised |-> 1]

\* C35: at DONE the typo statistics of the delivered stats count as many
\* characters as the stats' total_chars, the length of the input.
C35_TypoStatsCountInput ==
  state = "DONE" /\ last_stats # NoStats =>
    last_stats.typo_stats.total_chars = last_stats.total_chars

\* The progress callbacks thread t makes in the output of a step.
ProgressOf(events, t) ==
  {events[j] : j \in EvPositions(events, "progress", t, "")}

\* C36: every progress callback of a run reports a current in 1..total that
\* is above every earlier one, with total the length of the text, and the
\* callback of the run's last round reports current = total.
C36_ProgressReachesTotal ==
  [][\A t \in ThreadIds : \A e \in ProgressOf(out', t) :
       LET total == Len(threads[t].text)
           next_i == IF threads[t].skip_next
                     THEN threads[t].i + 2 ELSE threads[t].i + 1
       IN  /\ e.m = total
           /\ e.n \in 1..total
           /\ e.n > threads[t].i
           /\ e.n <= next_i
           /\ next_i >= total => e.n = total]_vars

\* The boundary and punctuation entries of a breakdown computed for char
\* after prev_char agree with the flags and the triggers.
StageKeysOk(char, prev_char, breakdown) ==
  LET keys == DOMAIN breakdown
  IN  /\ ~("newline" \in keys /\ "inter_word" \in keys)
      /\ ~("newline" \in keys /\ "intra_word_factor" \in keys)
      /\ ~("inter_word" \in keys /\ "intra_word_factor" \in keys)
      /\ "newline" \in keys <=>
           config.newline_pause_enabled /\ prev_char = "\n"
      /\ "inter_word" \in keys =>
           config.word_boundary_enabled /\ prev_char = " "
      /\ "intra_word_factor" \in keys =>
           /\ config.word_boundary_enabled
           /\ prev_char \notin {NoneChar, " "}
           /\ char # " "
      /\ "punctuation" \in keys <=>
           config.punctuation_pause_enabled /\ prev_char \in PUNCTUATION_CHARS

\* C37: a breakdown of calculate_delay never holds 'newline' together with
\* 'inter_word' or 'intra_word_factor', holds at most one of the latter two,
\* holds each of them only when its flag is set and its trigger on char and
\* prev_char holds, and holds 'punctuation' whenever the punctuation flag is
\* set and prev_char is a punctuation mark, whatever the boundary stage did.
C37_ExclusiveBoundaryStages ==
  /\ fcall.fn = "calculate_delay" =>
       StageKeysOk(fcall.char, fcall.prev_char, fcall.breakdown)
  /\ fcall.fn = "calculate_all" =>
       \A j \in 1..Len(fcall.results) :
         StageKeysOk(fcall.results[j].char, fcall.results[j].prev_char,
                     fcall.results[j].breakdown)

\* A call for "a" after "." applied the intra-word factor and the
\* punctuation pause together.
C37_Witness ==
  /\ fcall.fn = "calculate_delay"
  /\ fcall.char = "a"
  /\ fcall.prev_char = "."
  /\ {"intra_word_factor", "punctuation"} \subseteq DOMAIN fcall.breakdown
  /\ "newline" \notin DOMAIN fcall.breakdown

\* The calls of a calculate_all run, counted from 1, that added a burst pause.
BurstCalls(results) ==
  {j \in 1..Len(results) : "burst" \in DOMAIN results[j].breakdown}

\* The last burst pause before call j, or 0 for the reset.
LastBurstBefore(results, j) ==
  LET earlier == {p \in BurstCalls(results) : p < j} \cup {0}
  IN  CHOOSE p \in earlier : \A q \in earlier : q <= p

\* C38: with burst enabled the counter stays in 0..target-1 between calls
\* and the target in [min, max]; a call adds the burst pause exactly when it
\* takes the counter to the target, and then leaves the counter 0 and a
\* target in [min, max], otherwise it adds 1 to the counter and keeps the
\* target; from reset() or a burst pause to the next burst pause there are
\* min to max calls; reset() leaves the counter 0 and a target in [min, max].
C38_BurstCounter ==
  config.burst_enabled =>
    /\ burst.counter \in 0..(burst.size - 1)
    /\ burst.size \in BurstSizes(config)
    /\ fcall.fn = "calculate_delay" =>
         IF fcall.before.counter + 1 = fcall.before.size
         THEN /\ "burst" \in DOMAIN fcall.breakdown
              /\ burst.counter = 0
         ELSE /\ "burst" \notin DOMAIN fcall.breakdown
              /\ burst = [fcall.before EXCEPT !.counter = @ + 1]
    /\ fcall.fn = "calculate_all" =>
         /\ fcall.reset.counter = 0
         /\ fcall.reset.size \in BurstSizes(config)
         /\ \A j \in BurstCalls(fcall.results) :
              j - LastBurstBefore(fcall.results, j) \in BurstSizes(config)
         /\ burst.counter =
              Len(fcall.results) - LastBurstBefore(fcall.results,
                                                   Len(fcall.results) + 1)

\* calculate_all on three characters paused after a burst of two and again
\* after a burst of one.
C38_Witness ==
  /\ config.burst_enabled
  /\ fcall.fn = "calculate_all"
  /\ fcall.reset.size = 2
  /\ BurstCalls(fcall.results) = {2, 3}
  /\ burst.counter = 0

\* C39: the step that ends the countdown of a run calls capture() on the
\* focus guard once, the step that takes up the first character consults
\* check(0), and a step whose check returned false publishes PAUSED; the
\* calls would show in out like every other call the engine makes.
C39_FocusGuardConsulted ==
  [][\A t \in ThreadIds :
       /\ threads[t].pc = "cd_sleep" /\ threads'[t].pc = "loop" =>
            Cardinality(EvPositions(out', "capture", t, "")) = 1
       /\ LoadsFirstChar(t) => HasEvOf(out', "check", t)
       /\ EvPositions(out', "check", t, "false") # {} => state' = "PAUSED"]_vars
=============================================================================
